---------------------------- MODULE Spec2Model ----------------------------
(***************************************************************************)
(* A model of kstack-lib's configuration and credential discovery core:    *)
(*   - SecretsProvider         (kstack_lib/config/secrets.py)               *)
(*   - ConfigMap               (kstack_lib/config/configmap.py)             *)
(*   - template resolver and   (kstack_lib/config/loaders.py)               *)
(*     get_cloud_provider                                                  *)
(*   - KStackVault             (kstack_lib/local/security/vault.py)         *)
(* Every subsystem has its own specification (SpecSecrets, SpecExport,     *)
(* SpecRoute, SpecTemplate, SpecProvider, SpecVault); the variables of the *)
(* other subsystems stay at their idle values under it.                    *)
(***************************************************************************)
EXTENDS Integers, Sequences, FiniteSets, TLC

VARIABLES
    \* --- SecretsProvider.load_secrets_from_vault -------------------------
    envDirExists,   \* {vault_dir}/{env} exists
    vaultFiles,     \* layer directory -> the *.yaml files in it, in glob order
    secOut,         \* the last load_secrets_from_vault call: its layer and outcome
    \* --- SecretsProvider.export_as_env_vars ------------------------------
    environ,        \* os.environ: variable name -> value
    exportCall,     \* the last export_as_env_vars call and os.environ before it
    \* --- ConfigMap route / value lookups ---------------------------------
    kstackRoute,    \* os.environ["KSTACK_ROUTE"], or Unset
    routeCall,      \* the last ConfigMap call: operation, inputs, outcome
    \* --- template resolver -----------------------------------------------
    tmplCall,       \* the last _resolve_template_variables call
    \* --- get_cloud_provider ----------------------------------------------
    cfgFiles,       \* the configuration and vault files get_cloud_provider reads
    provCall,       \* the last get_cloud_provider call
    \* --- KStackVault -----------------------------------------------------
    vaultFS,        \* the files under {vault_root}/{environment}
    scopePc,        \* position of the `with vault:` block
    vaultCall,      \* the last KStackVault operation
    \* --- context detection, guards, container ----------------------------
    tokenFile,      \* the service-account token file exists
    namespaceFile,  \* the service-account namespace file: absent, or its text
    inClusterCache, \* the lru_cache of is_in_cluster
    sysModules,     \* the guarded modules that are loaded
    instances,      \* the context-bound components that have been constructed
    singletons,     \* container provider -> the instance its Singleton holds
    ctxCall,        \* the last operation of this group and its outcome
    \* --- load_cloud_credentials ------------------------------------------
    credsDir,       \* {vault_dir}/{environment}/layer{N}: absent, or its files
    credsCall,      \* the last load_cloud_credentials / validation call
    \* --- KStackLayer lookups ---------------------------------------------
    layerCall,      \* the last from_number / from_namespace / from_string call
    \* --- CloudContainer --------------------------------------------------
    defaultProvider,\* self._default_provider ("" for None)
    cloudProviders, \* self._providers: the cached provider keys, in insertion order
    cloudClosed,    \* self._closed
    closeCalls,     \* provider key -> how often close() was called on that provider
    cloudScope,     \* position of the `with` / `async with` block
    cloudAlive,     \* the container has not been finalised by __del__
    cloudCall       \* the last CloudContainer operation and its outcome

secVars   == <<envDirExists, vaultFiles, secOut>>
expVars   == <<environ, exportCall>>
routeVars == <<kstackRoute, routeCall>>
tmplVars  == <<tmplCall>>
provVars  == <<cfgFiles, provCall>>
vaultVars == <<vaultFS, scopePc, vaultCall>>
ctxVars   == <<tokenFile, namespaceFile, inClusterCache, sysModules, instances,
               singletons, ctxCall>>
credVars  == <<credsDir, credsCall>>
layerVars == <<layerCall>>
cloudVars == <<defaultProvider, cloudProviders, cloudClosed, closeCalls, cloudScope,
               cloudAlive, cloudCall>>
vars == <<secVars, expVars, routeVars, tmplVars, provVars, vaultVars,
          ctxVars, credVars, layerVars, cloudVars>>

\* What an operation of one subsystem leaves alone: the other subsystems.
notSecrets  == <<expVars, routeVars, tmplVars, provVars, vaultVars, ctxVars, credVars, layerVars,
                 cloudVars>>
notExport   == <<secVars, routeVars, tmplVars, provVars, vaultVars, ctxVars, credVars, layerVars,
                 cloudVars>>
notRoute    == <<secVars, expVars, tmplVars, provVars, vaultVars, ctxVars, credVars, layerVars,
                 cloudVars>>
notTemplate == <<secVars, expVars, routeVars, provVars, vaultVars, ctxVars, credVars, layerVars,
                 cloudVars>>
notProvider == <<secVars, expVars, routeVars, tmplVars, vaultVars, ctxVars, credVars, layerVars,
                 cloudVars>>
notVault    == <<secVars, expVars, routeVars, tmplVars, provVars, ctxVars, credVars, layerVars,
                 cloudVars>>
notContext  == <<secVars, expVars, routeVars, tmplVars, provVars, vaultVars,
                 credVars, layerVars, cloudVars>>
notCreds    == <<secVars, expVars, routeVars, tmplVars, provVars, vaultVars,
                 ctxVars, layerVars, cloudVars>>
notLayer    == <<secVars, expVars, routeVars, tmplVars, provVars, vaultVars,
                 ctxVars, credVars, cloudVars>>
notCloud    == <<secVars, expVars, routeVars, tmplVars, provVars, vaultVars,
                 ctxVars, credVars, layerVars>>

NoCall == [op |-> "none"]

(***************************************************************************)
(* Generic helpers                                                         *)
(***************************************************************************)
Range(s) == {s[i] : i \in 1..Len(s)}

Digit(d) ==
    CASE d = 0 -> "0" [] d = 1 -> "1" [] d = 2 -> "2" [] d = 3 -> "3"
      [] d = 4 -> "4" [] d = 5 -> "5" [] d = 6 -> "6" [] d = 7 -> "7"
      [] d = 8 -> "8" [] OTHER -> "9"

RECURSIVE IntToStr(_)
IntToStr(n) == IF n < 10 THEN Digit(n) ELSE IntToStr(n \div 10) \o Digit(n % 10)

\* Python's str(value) of a YAML scalar: a string is itself, an int its digits.
PyStr(v) == IF v.t = "str" THEN v.v ELSE IntToStr(v.v)

StrVal(s) == [t |-> "str", v |-> s]
IntVal(n) == [t |-> "int", v |-> n]

(***************************************************************************)
(* SecretsProvider: cross-layer access control                             *)
(***************************************************************************)
\* The layer directories, in the order load_secrets_from_vault visits them.
LayerDirs == <<"layer0", "layer1", "layer2", "layer3">>
LayerNames == Range(LayerDirs)

\* The metadata keys load_secrets_from_vault strips from a file.
MetadataKeys == {"shared_with", "description", "created", "status", "migration"}

\* The values a file's shared_with key takes in the model.  kind "absent": the
\* key is missing; "list": a YAML list (its items); "str": a plain string (its
\* chunks: layer names and separators); "null", "int": YAML null, a number;
\* "dict": a mapping (its keys).
SwAbsent   == [kind |-> "absent", items |-> {}]
SwList(S)  == [kind |-> "list", items |-> S]
SwStr(S)   == [kind |-> "str", items |-> S]
SwNull     == [kind |-> "null", items |-> {}]
SwInt      == [kind |-> "int", items |-> {}]
SwDict(S)  == [kind |-> "dict", items |-> S]

WellFormedSharedWith ==
    {SwAbsent, SwList({}), SwList({"layer0"}), SwList({"layer1", "layer2"}),
     SwList({"layer0", "layer3"})}
MalformedSharedWith == {SwStr({"layer0"}), SwNull, SwInt, SwDict({"layer2"})}

\* The key/value documents of the model's secret files (shared_with apart).
DocA == [k \in {"redis-host", "description", "created"} |->
            CASE k = "redis-host" -> StrVal("hostA")
              [] k = "description" -> StrVal("doc A")
              [] OTHER -> StrVal("2025-01-10")]
DocB == [k \in {"redis-host", "redis-port", "status", "migration"} |->
            CASE k = "redis-host" -> StrVal("hostB")
              [] k = "redis-port" -> IntVal(6379)
              [] k = "status" -> StrVal("active")
              [] OTHER -> StrVal("done")]

File(doc, sw) == [data |-> doc, shared_with |-> sw]
SecretFiles ==
    {File(d, sw) : d \in {DocA, DocB}, sw \in WellFormedSharedWith}
      \cup {File(DocA, sw) : sw \in MalformedSharedWith}

\* The most *.yaml files the model's vault holds over the four layer directories.
MaxFiles == 2

EmptyVault == [d \in LayerNames |-> <<>>]
RECURSIVE SumLen(_, _)
SumLen(f, S) ==
    IF S = {} THEN 0
    ELSE LET d == CHOOSE x \in S : TRUE IN Len(f[d]) + SumLen(f, S \ {d})
FileCount(v) == SumLen(v, LayerNames)

\* Python's `source_layer in shared_with`: "ok" with the answer, or TypeError for
\* a value that is no container (None, a number).
PyIn(x, sw) ==
    CASE sw.kind \in {"absent", "list", "dict"} ->
            [raised |-> FALSE, value |-> x \in sw.items]
      [] sw.kind = "str" ->
            \* substring test: a layer name occurs in the string
            [raised |-> FALSE, value |-> x \in sw.items]
      [] OTHER -> [raised |-> TRUE, value |-> FALSE]

\* A plausible slip: every layer may read every file.
CanAccessSecret_Open(source_layer, target_layer, file) ==
    [raised |-> FALSE, value |-> TRUE]

\* SecretsProvider._can_access_secret
CanAccessSecret(source_layer, target_layer, file) ==
    IF source_layer = target_layer
    THEN [raised |-> FALSE, value |-> TRUE]
    ELSE PyIn(source_layer, file.shared_with)

\* A merge that keeps the value a key already has.
MergeFile_KeepFirst(secrets, file) ==
    LET keep == DOMAIN file.data \ MetadataKeys
    IN  [k \in DOMAIN secrets \cup keep |->
            IF k \in DOMAIN secrets THEN secrets[k] ELSE PyStr(file.data[k])]

\* The inner loop of load_secrets_from_vault over one file's items: the keys that
\* are not metadata, each value converted with str(), over what was there.
MergeFile(secrets, file) ==
    LET keep == DOMAIN file.data \ MetadataKeys
    IN  [k \in DOMAIN secrets \cup keep |->
            IF k \in keep THEN PyStr(file.data[k]) ELSE secrets[k]]

EmptyDict == [k \in {} |-> ""]
OkOut(s) == [raised |-> FALSE, secrets |-> s]
RaisedOut == [raised |-> TRUE, secrets |-> EmptyDict]

\* The files of one layer directory, from file i on.
RECURSIVE LoadFiles(_, _, _, _, _)
LoadFiles(layer, layer_dir, files, i, secrets) ==
    IF i > Len(files) THEN OkOut(secrets)
    ELSE LET acc == CanAccessSecret(layer, layer_dir, files[i])
         IN  IF acc.raised THEN RaisedOut
             ELSE LoadFiles(layer, layer_dir, files, i + 1,
                            IF acc.value THEN MergeFile(secrets, files[i])
                            ELSE secrets)

\* The loop over the four layer directories, from directory d on.
RECURSIVE LoadLayers(_, _, _, _)
LoadLayers(layer, v, d, secrets) ==
    IF d > Len(LayerDirs) THEN OkOut(secrets)
    ELSE LET r == LoadFiles(layer, LayerDirs[d], v[LayerDirs[d]], 1, secrets)
         IN  IF r.raised THEN r ELSE LoadLayers(layer, v, d + 1, r.secrets)

\* SecretsProvider.load_secrets_from_vault
LoadSecretsFromVault(layer, exists, v) ==
    IF ~exists THEN OkOut(EmptyDict) ELSE LoadLayers(layer, v, 1, EmptyDict)

SecretsInit ==
    /\ envDirExists = FALSE
    /\ vaultFiles = EmptyVault
    /\ secOut = NoCall

\* The operator writes a secret file into a layer directory of the vault.
WriteVaultFile ==
    /\ FileCount(vaultFiles) < MaxFiles
    /\ \E d \in LayerNames, f \in SecretFiles :
          vaultFiles' = [vaultFiles EXCEPT ![d] = Append(@, f)]
    /\ envDirExists' = TRUE
    /\ secOut' = NoCall
    /\ UNCHANGED notSecrets

\* The environment directory is created empty.
MakeEnvDir ==
    /\ ~envDirExists
    /\ envDirExists' = TRUE
    /\ UNCHANGED <<vaultFiles, secOut>>
    /\ UNCHANGED notSecrets

\* provider.load_secrets_from_vault(layer)
LoadSecrets ==
    /\ \E layer \in LayerNames :
          secOut' = [op |-> "load_secrets_from_vault", layer |-> layer,
                     out |-> LoadSecretsFromVault(layer, envDirExists, vaultFiles)]
    /\ UNCHANGED <<envDirExists, vaultFiles>>
    /\ UNCHANGED notSecrets

SecretsNext == WriteVaultFile \/ MakeEnvDir \/ LoadSecrets

(***************************************************************************)
(* SecretsProvider: export as environment variables                        *)
(* Keys and variable names are sequences of characters.                    *)
(***************************************************************************)
\* The secret keys of the model: keys that convert to the same name, to a name
\* the process already holds, and to a name it does not.
SecretKeys ==
    {<<"a">>, <<"A">>, <<"a", "-">>, <<"A", "_">>, <<"a", "-", "a">>, <<"-", "a">>}

\* The most secrets of one export in the model.
MaxSecrets == 2
SecretValues == {"v1", "v2"}

\* A dict[str, str] in its iteration order: no key occurs twice.
SecretDicts ==
    {s \in UNION {[1..n -> [key : SecretKeys, value : SecretValues]] : n \in 0..MaxSecrets} :
        \A i, j \in 1..Len(s) : s[i].key = s[j].key => i = j}

\* str.upper() and str.replace("-", "_") on one character.
UpperChar(c) == IF c = "a" THEN "A" ELSE c
HyphenToUnderscore(c) == IF c = "-" THEN "_" ELSE c

\* SecretsProvider._convert_key_to_env_var
ConvertKeyToEnvVar(key) ==
    [i \in 1..Len(key) |-> UpperChar(HyphenToUnderscore(key[i]))]

\* os.environ[name] = value
SetEnv(env, name, value) ==
    [n \in DOMAIN env \cup {name} |-> IF n = name THEN value ELSE env[n]]

\* A plausible slip: the precedence test is dropped and every secret is exported.
ExportStep_Always(env, secret, override_existing) ==
    SetEnv(env, ConvertKeyToEnvVar(secret.key), secret.value)

\* An export step that never touches a variable that exists.
ExportStep_NeverOverrides(env, secret, override_existing) ==
    LET env_var_name == ConvertKeyToEnvVar(secret.key)
    IN  IF env_var_name \in DOMAIN env THEN env
        ELSE SetEnv(env, env_var_name, secret.value)

\* One iteration of export_as_env_vars.
ExportStep(env, secret, override_existing) ==
    LET env_var_name == ConvertKeyToEnvVar(secret.key)
    IN  IF ~override_existing /\ env_var_name \in DOMAIN env
        THEN env
        ELSE SetEnv(env, env_var_name, secret.value)

\* SecretsProvider.export_as_env_vars: the loop over secrets.items(), from item i.
RECURSIVE ExportAsEnvVars(_, _, _, _)
ExportAsEnvVars(env, secrets, override_existing, i) ==
    IF i > Len(secrets) THEN env
    ELSE ExportAsEnvVars(ExportStep(env, secrets[i], override_existing),
                         secrets, override_existing, i + 1)

\* The variables the process may hold before the export.  HOME is the converted
\* name of no key.
PreNames == {<<"A">>, <<"A", "_">>, <<"H", "O", "M", "E">>}
InitialEnvirons == UNION {[S -> {"old"}] : S \in SUBSET PreNames}

ExportInit ==
    /\ environ \in InitialEnvirons
    /\ exportCall = NoCall

\* provider.export_as_env_vars(secrets, override_existing)
Export ==
    /\ exportCall = NoCall
    /\ \E secrets \in SecretDicts, override_existing \in BOOLEAN :
          /\ environ' = ExportAsEnvVars(environ, secrets, override_existing, 1)
          /\ exportCall' = [op |-> "export_as_env_vars", secrets |-> secrets,
                            override_existing |-> override_existing,
                            before |-> environ]
    /\ UNCHANGED notExport

ExportNext == Export

(***************************************************************************)
(* KStackLayer                                                             *)
(***************************************************************************)
KStackLayers ==
    {"LAYER_0_APPLICATIONS", "LAYER_1_TENANT_INFRA", "LAYER_2_GLOBAL_SERVICES",
     "LAYER_3_GLOBAL_INFRA"}

\* KStackLayer.namespace
LayerNamespace(layer) ==
    CASE layer = "LAYER_0_APPLICATIONS" -> "layer-0-applications"
      [] layer = "LAYER_1_TENANT_INFRA" -> "layer-1-tenant-infra"
      [] layer = "LAYER_2_GLOBAL_SERVICES" -> "layer-2-global-services"
      [] OTHER -> "layer-3-global-infra"

\* KStackLayer.number
LayerNumber(layer) ==
    CASE layer = "LAYER_0_APPLICATIONS" -> 0
      [] layer = "LAYER_1_TENANT_INFRA" -> 1
      [] layer = "LAYER_2_GLOBAL_SERVICES" -> 2
      [] OTHER -> 3

(***************************************************************************)
(* ConfigMap: active route and value lookups                               *)
(* A string is a sequence of chunks; " " and "\n" are whitespace.          *)
(***************************************************************************)
Whitespace == {" ", "\n", "\t"}

\* str.strip()
RECURSIVE LStrip(_)
LStrip(s) == IF s # <<>> /\ Head(s) \in Whitespace THEN LStrip(Tail(s)) ELSE s
RECURSIVE RStrip(_)
RStrip(s) ==
    IF s # <<>> /\ s[Len(s)] \in Whitespace THEN RStrip(SubSeq(s, 1, Len(s) - 1)) ELSE s
Strip(s) == RStrip(LStrip(s))

\* Python's truth value of a string.
Truthy(s) == s # <<>>

\* The route names and outputs of the model: empty, whitespace only, plain, and
\* padded with whitespace.
RouteStrings ==
    {<<>>, <<" ">>, <<"testing">>, <<" ", "staging", "\n">>, <<"development">>}

DefaultRoute == <<"development">>

Unset == [set |-> FALSE, value |-> <<>>]
EnvValue(s) == [set |-> TRUE, value |-> s]

\* What subprocess.run can do: return, or raise.  PermissionError stands for the
\* exceptions the lookups do not name.
RunOutcomes ==
    {"ok", "CalledProcessError", "TimeoutExpired", "FileNotFoundError",
     "PermissionError"}
Runs == {[outcome |-> o, stdout |-> s] : o \in RunOutcomes, s \in RouteStrings}

\* A plausible slip: the timeout is not among the caught exceptions.
LookupCaught_NoTimeout == {"CalledProcessError", "FileNotFoundError"}

\* The exceptions get_active_route and get_value catch.
LookupCaught == {"CalledProcessError", "TimeoutExpired", "FileNotFoundError"}

Returned(v, queried) ==
    [raised |-> FALSE, exc |-> "none", none |-> FALSE, value |-> v, queried |-> queried]
ReturnedNone(queried) ==
    [raised |-> FALSE, exc |-> "none", none |-> TRUE, value |-> <<>>, queried |-> queried]
Raised(e, queried) ==
    [raised |-> TRUE, exc |-> e, none |-> FALSE, value |-> <<>>, queried |-> queried]

\* A plausible slip: the store is asked first and the variable only afterwards.
GetActiveRoute_StoreFirst(route_env, run) ==
    IF run.outcome = "ok" /\ Truthy(Strip(run.stdout))
    THEN Returned(Strip(run.stdout), TRUE)
    ELSE IF route_env.set /\ Truthy(route_env.value)
         THEN Returned(route_env.value, TRUE)
         ELSE Returned(DefaultRoute, TRUE)

\* ConfigMap.get_active_route; run is what the kubectl invocation does if made.
GetActiveRoute(route_env, run) ==
    IF route_env.set /\ Truthy(route_env.value)
    THEN Returned(route_env.value, FALSE)
    ELSE IF run.outcome = "ok"
         THEN LET route == Strip(run.stdout)
              IN  IF Truthy(route) THEN Returned(route, TRUE)
                  ELSE Returned(DefaultRoute, TRUE)
         ELSE IF run.outcome \in LookupCaught
              THEN Returned(DefaultRoute, TRUE)
              ELSE Raised(run.outcome, TRUE)

\* ConfigMap.get_value
GetValue(run) ==
    IF run.outcome = "ok"
    THEN LET v == Strip(run.stdout)
         IN  IF Truthy(v) THEN Returned(v, TRUE) ELSE ReturnedNone(TRUE)
    ELSE IF run.outcome \in LookupCaught
         THEN ReturnedNone(TRUE)
         ELSE Raised(run.outcome, TRUE)

\* The route of the latest successful set_active_route of the process, carried
\* in the call record; Unset before the first one.
Mirrored == IF routeCall.op = "none" THEN Unset ELSE routeCall.mirrored

\* A set_active_route that writes KSTACK_ROUTE before running the command.
SetActiveRoute_MirrorFirst(route_env, route_name, o) ==
    [env |-> EnvValue(route_name),
     out |-> IF o = "ok" THEN ReturnedNone(TRUE) ELSE Raised(o, TRUE)]

\* ConfigMap.set_active_route: the patch command runs with check=True and a
\* timeout, its exception propagates; only then is the variable written.
SetActiveRoute(route_env, route_name, o) ==
    IF o = "ok"
    THEN [env |-> EnvValue(route_name), out |-> ReturnedNone(TRUE)]
    ELSE [env |-> route_env, out |-> Raised(o, TRUE)]

RouteInit ==
    /\ kstackRoute \in {Unset} \cup {EnvValue(s) : s \in RouteStrings}
    /\ routeCall = NoCall

\* cfg.get_active_route()
CallGetActiveRoute ==
    /\ \E layer \in KStackLayers, run \in Runs :
          routeCall' = [op |-> "get_active_route", layer |-> layer, run |-> run,
                        arg |-> <<>>, env_before |-> kstackRoute,
                        mirrored |-> Mirrored,
                        out |-> GetActiveRoute(kstackRoute, run)]
    /\ UNCHANGED kstackRoute
    /\ UNCHANGED notRoute

\* cfg.set_active_route(route_name)
CallSetActiveRoute ==
    /\ \E layer \in KStackLayers, route_name \in RouteStrings, o \in RunOutcomes :
          LET run == [outcome |-> o, stdout |-> <<>>]
              r == SetActiveRoute(kstackRoute, route_name, o)
          IN  /\ kstackRoute' = r.env
              /\ routeCall' = [op |-> "set_active_route", layer |-> layer, run |-> run,
                               arg |-> route_name, env_before |-> kstackRoute,
                               mirrored |-> IF o = "ok" THEN EnvValue(route_name)
                                            ELSE Mirrored,
                               out |-> r.out]
    /\ UNCHANGED notRoute

\* cfg.get_value(configmap_name, key)
CallGetValue ==
    /\ \E layer \in KStackLayers, run \in Runs :
          routeCall' = [op |-> "get_value", layer |-> layer, run |-> run,
                        arg |-> <<>>, env_before |-> kstackRoute,
                        mirrored |-> Mirrored,
                        out |-> GetValue(run)]
    /\ UNCHANGED kstackRoute
    /\ UNCHANGED notRoute

RouteNext == CallGetActiveRoute \/ CallSetActiveRoute \/ CallGetValue

(***************************************************************************)
(* Template resolver                                                       *)
(* A text is a sequence of characters; "{", "}", "." and the whitespace    *)
(* characters are single elements, any other element is an opaque run of   *)
(* other characters.  A context value is a string, an int or a mapping.    *)
(***************************************************************************)
TStr(s) == [t |-> "str", s |-> s, n |-> 0, d |-> <<>>]
TInt(n) == [t |-> "int", s |-> <<>>, n |-> n, d |-> <<>>]
TDict(f) == [t |-> "dict", s |-> <<>>, n |-> 0, d |-> f]

\* The index of the first "}" of s at or after j, or 0.
RECURSIVE FirstClose(_, _)
FirstClose(s, j) ==
    IF j > Len(s) THEN 0 ELSE IF s[j] = "}" THEN j ELSE FirstClose(s, j + 1)

\* The pattern \{\{([^}]+)\}\} matched at index i: the index after the match,
\* or 0.  [^}]+ runs to the first "}", which must open "}}".
MatchAt(s, i) ==
    IF i + 1 <= Len(s) /\ s[i] = "{" /\ s[i + 1] = "{"
    THEN LET j == FirstClose(s, i + 2)
         IN  IF j >= i + 3 /\ j + 1 <= Len(s) /\ s[j + 1] = "}" THEN j + 2 ELSE 0
    ELSE 0

\* re.findall(pattern, value): the captured groups of the matches, left to right.
RECURSIVE FindAll(_, _)
FindAll(s, i) ==
    IF i > Len(s) THEN <<>>
    ELSE LET e == MatchAt(s, i)
         IN  IF e # 0 THEN <<SubSeq(s, i + 2, e - 3)>> \o FindAll(s, e)
             ELSE FindAll(s, i + 1)

\* The index of the first "." of s at or after j, or 0.
RECURSIVE FirstDot(_, _)
FirstDot(s, j) ==
    IF j > Len(s) THEN 0 ELSE IF s[j] = "." THEN j ELSE FirstDot(s, j + 1)

\* str.split(".")
RECURSIVE SplitDots(_)
SplitDots(s) ==
    LET k == FirstDot(s, 1)
    IN  IF k = 0 THEN <<s>>
        ELSE <<SubSeq(s, 1, k - 1)>> \o SplitDots(SubSeq(s, k + 1, Len(s)))

\* str.replace(old, new): every occurrence, left to right, not overlapping.
RECURSIVE StrReplace(_, _, _, _)
StrReplace(s, old, new, i) ==
    IF i > Len(s) THEN <<>>
    ELSE IF i + Len(old) - 1 <= Len(s) /\ SubSeq(s, i, i + Len(old) - 1) = old
         THEN new \o StrReplace(s, old, new, i + Len(old))
         ELSE <<s[i]>> \o StrReplace(s, old, new, i + 1)

RECURSIVE IntToChars(_)
IntToChars(n) ==
    IF n < 10 THEN <<Digit(n)>> ELSE IntToChars(n \div 10) \o <<Digit(n % 10)>>

\* str(value): a string is itself, an int its digits, a mapping its repr.
RECURSIVE DictItemsRepr(_, _)
DictItemsRepr(f, keys) ==
    IF keys = {} THEN <<>>
    ELSE LET k == CHOOSE x \in keys : TRUE
             item == <<"'">> \o k \o <<"'", ":", " ">> \o
                     (IF f[k].t = "str" THEN <<"'">> \o f[k].s \o <<"'">>
                      ELSE IF f[k].t = "int" THEN IntToChars(f[k].n)
                      ELSE <<"{">> \o DictItemsRepr(f[k].d, DOMAIN f[k].d) \o <<"}">>)
         IN  item \o (IF keys = {k} THEN <<>> ELSE <<",", " ">>)
                  \o DictItemsRepr(f, keys \ {k})
ValueStr(val) ==
    CASE val.t = "str" -> val.s
      [] val.t = "int" -> IntToChars(val.n)
      [] OTHER -> <<"{">> \o DictItemsRepr(val.d, DOMAIN val.d) \o <<"}">>

NotFound == [found |-> FALSE, value |-> TStr(<<>>)]

\* `for part in parts: current = current[part]`: a missing key is a KeyError,
\* indexing a string or a number with a string a TypeError.
RECURSIVE Navigate(_, _, _)
Navigate(current, parts, i) ==
    IF i > Len(parts) THEN [found |-> TRUE, value |-> current]
    ELSE IF current.t = "dict" /\ parts[i] \in DOMAIN current.d
         THEN Navigate(current.d[parts[i]], parts, i + 1)
         ELSE NotFound

\* The value a captured variable path resolves to in the context.
Lookup(var_path, context) ==
    Navigate(TDict(context), SplitDots(Strip(var_path)), 1)

Placeholder(var_path) == <<"{", "{">> \o var_path \o <<"}", "}">>

Resolved(s) == [raised |-> FALSE, exc |-> "none", value |-> s]
ConfigurationError(why) == [raised |-> TRUE, exc |-> why, value |-> <<>>]

\* The loop of _resolve_template_variables over the matches, from match i.
RECURSIVE ResolveLoop(_, _, _, _)
ResolveLoop(result, matches, i, context) ==
    IF i > Len(matches) THEN Resolved(result)
    ELSE LET found == Lookup(matches[i], context)
         IN  IF ~found.found THEN ConfigurationError("template variable not found")
             ELSE ResolveLoop(StrReplace(result, Placeholder(matches[i]),
                                         ValueStr(found.value), 1),
                              matches, i + 1, context)

\* _resolve_template_variables
ResolveTemplateVariables(value, context) ==
    LET matches == FindAll(value, 1)
    IN  IF matches = <<>> THEN Resolved(value)
        ELSE ResolveLoop(value, matches, 1, context)

\* The texts of the model: up to MaxPieces of these pieces, concatenated.
TemplatePieces ==
    {<<"{", "{", "a", "}", "}">>, <<"{", "{", "b", "}", "}">>,
     <<"{", "{", " ", "c", ".", "d", " ", "}", "}">>, <<"x">>, <<"{">>, <<"}">>}
MaxPieces == 3

RECURSIVE Concat(_)
Concat(ps) == IF ps = <<>> THEN <<>> ELSE Head(ps) \o Concat(Tail(ps))
TemplateTexts == {Concat(ps) : ps \in UNION {[1..n -> TemplatePieces] : n \in 0..MaxPieces}}

\* The contexts of the model: each of a, b, c absent or bound to one of these.
Absent == [present |-> FALSE, val |-> TStr(<<>>)]
Bound(v) == [present |-> TRUE, val |-> v]
KeyA == <<"a">>
KeyB == <<"b">>
KeyC == <<"c">>
KeyD == <<"d">>
KeyE == <<"e">>
BindingsA == {Absent, Bound(TStr(<<"X">>)), Bound(TStr(<<"{", "{", "b", "}", "}">>))}
BindingsB == {Absent, Bound(TStr(<<"Y">>)), Bound(TInt(3))}
BindingsC ==
    {Absent, Bound(TStr(<<"Z">>)),
     Bound(TDict([k \in {KeyD} |-> TStr(<<"W">>)])),
     Bound(TDict([k \in {KeyE} |-> TStr(<<"V">>)]))}
ContextOf(a, b, c) ==
    LET keys == (IF a.present THEN {KeyA} ELSE {}) \cup (IF b.present THEN {KeyB} ELSE {})
                   \cup (IF c.present THEN {KeyC} ELSE {})
    IN  [k \in keys |-> IF k = KeyA THEN a.val ELSE IF k = KeyB THEN b.val ELSE c.val]
TemplateContexts ==
    {ContextOf(a, b, c) : a \in BindingsA, b \in BindingsB, c \in BindingsC}

TemplateInit == tmplCall = NoCall

\* _resolve_template_variables(value, context); the function is pure, so a
\* behaviour holds one call.
CallResolve ==
    /\ tmplCall = NoCall
    /\ \E value \in TemplateTexts, context \in TemplateContexts :
          tmplCall' = [op |-> "resolve", value |-> value, context |-> context,
                       out |-> ResolveTemplateVariables(value, context)]
    /\ UNCHANGED notTemplate

TemplateNext == CallResolve

(***************************************************************************)
(* Provider discovery: load_environment_config, load_provider_config,      *)
(* load_cloud_credentials and get_cloud_provider.  The ConfigMap is built   *)
(* with an explicit environment (dev), as the callers of                    *)
(* get_cloud_provider do.                                                   *)
(***************************************************************************)
TNull == [t |-> "null", s |-> <<>>, n |-> 0, d |-> <<>>]
\* A plausible slip: a layer without cloud services borrows Layer 3's target.
LayerKey_Fallback(layer) ==
    IF LayerNumber(layer) \in {1, 3} THEN "layer" \o IntToStr(LayerNumber(layer)) ELSE "layer3"
\* `layer_key = f"layer{cfg.layer.number}"`
LayerKey(layer) == "layer" \o IntToStr(LayerNumber(layer))
ProviderNames == {"localstack", "aws-dev"}

\* --- config/environments/dev.yaml ----------------------------------------
NoTargets == [k \in {} |-> ""]
Targets3 == [k \in {"layer3"} |-> "localstack"]
Targets31 == [k \in {"layer1", "layer3"} |-> IF k = "layer3" THEN "localstack" ELSE "aws-dev"]
Targets1 == [k \in {"layer1"} |-> "localstack"]
Targets03 == [k \in {"layer0", "layer3"} |-> "localstack"]
EnvFile(targets, allow) == [kind |-> "file", deployment_targets |-> targets, allow |-> allow]
EnvMissing == [kind |-> "missing", deployment_targets |-> NoTargets, allow |-> "absent"]
EnvUnparseable == [kind |-> "unparseable", deployment_targets |-> NoTargets, allow |-> "absent"]
EnvFiles ==
    {EnvMissing, EnvUnparseable, EnvFile(Targets3, "absent")}
      \cup {EnvFile(t, a) : t \in {NoTargets, Targets3, Targets31, Targets1, Targets03},
                            a \in {"true", "false"}}

\* EnvironmentConfig.validate_layer_keys
AllowedLayers == {"layer3", "layer1"}
ValidLayerKeys(targets) == DOMAIN targets \subseteq AllowedLayers

CfgError(msg) ==
    [raised |-> TRUE, exc |-> "ConfigurationError", msg |-> msg, provider |-> "",
     config |-> NoTargets, creds |-> NoTargets]
OtherError(exc) ==
    [raised |-> TRUE, exc |-> exc, msg |-> "", provider |-> "",
     config |-> NoTargets, creds |-> NoTargets]

\* load_environment_config: the validated EnvironmentConfig, or the error.
LoadEnvironmentConfig(file) ==
    CASE file.kind = "missing" -> [raised |-> TRUE, msg |-> "environment configuration not found"]
      [] file.kind = "unparseable" -> [raised |-> TRUE, msg |-> "failed to parse"]
      [] ~ValidLayerKeys(file.deployment_targets) ->
            [raised |-> TRUE, msg |-> "invalid environment configuration"]
      [] OTHER -> [raised |-> FALSE, msg |-> "",
                   deployment_targets |-> file.deployment_targets,
                   allow_provider_override |-> (file.allow = "true")]

\* --- config/providers/{name}.yaml ----------------------------------------
Tok(s) == TStr(<<s>>)
EndpointNamespace ==
    TStr(<<"http://localstack", ".", "{", "{", "layer", ".", "namespace", "}", "}", ".", "svc">>)
EndpointMixed ==
    TStr(<<"q-", "{", "{", "environment", "}", "}", "-", "{", "{", "layer", ".", "name", "}", "}",
           "-", "{", "{", " ", "layer", ".", "number", " ", "}", "}">>)
EndpointUnknown == TStr(<<"http://", "{", "{", "tenant", "}", "}">>)
ProviderData(name, family, impl, endpoint) ==
    [k \in {"name", "provider_family", "provider_implementation", "region",
            "services.s3.endpoint_url"} |->
        CASE k = "name" -> Tok(name)
          [] k = "provider_family" -> Tok(family)
          [] k = "provider_implementation" -> Tok(impl)
          [] k = "region" -> Tok("us-west-2")
          [] OTHER -> endpoint]
ProvFile(data) == [kind |-> "file", data |-> data]
ProvMissing == [kind |-> "missing", data |-> NoTargets]
ProvEmpty == [kind |-> "empty", data |-> NoTargets]
LocalstackFiles ==
    {ProvMissing, ProvEmpty,
     ProvFile(ProviderData("localstack", "aws", "localstack", EndpointNamespace)),
     ProvFile(ProviderData("localstack", "aws", "localstack", EndpointMixed)),
     ProvFile(ProviderData("localstack", "aws", "localstack", EndpointUnknown))}
AwsDevFiles ==
    {ProvMissing,
     ProvFile(ProviderData("aws-dev", "aws", "aws", TNull)),
     ProvFile(ProviderData("aws-dev", "gcp", "aws", TNull))}

\* The template context load_provider_config builds.
ProviderContext(layer) ==
    LET layer_ctx == [k \in {<<"namespace">>, <<"number">>, <<"name">>} |->
                        CASE k = <<"namespace">> -> Tok(LayerNamespace(layer))
                          [] k = <<"number">> -> TInt(LayerNumber(layer))
                          [] OTHER -> TStr(<<"layer">> \o IntToChars(LayerNumber(layer)))]
    IN  [k \in {<<"layer">>, <<"environment">>} |->
            IF k = <<"layer">> THEN TDict(layer_ctx) ELSE Tok("dev")]

\* _resolve_dict_templates over the (flattened) keys of a provider file.
ResolveDictTemplates(data, context) ==
    LET r == [k \in DOMAIN data |->
                IF data[k].t = "str" THEN ResolveTemplateVariables(data[k].s, context)
                ELSE Resolved(<<>>)]
    IN  IF \E k \in DOMAIN data : r[k].raised
        THEN [raised |-> TRUE, data |-> data]
        ELSE [raised |-> FALSE,
              data |-> [k \in DOMAIN data |->
                          IF data[k].t = "str" THEN TStr(r[k].value) ELSE data[k]]]

\* ProviderConfig.validate_family_implementation_match, after the enum checks.
FamilyImplementations(family) ==
    CASE family = Tok("aws") -> {Tok("localstack"), Tok("aws"), Tok("digitalocean"), Tok("minio")}
      [] family = Tok("gcp") -> {Tok("gcp")}
      [] family = Tok("azure") -> {Tok("azure")}
      [] OTHER -> {}
ValidProviderConfig(data) ==
    data["provider_implementation"] \in FamilyImplementations(data["provider_family"])

\* load_provider_config: an empty YAML document loads as None, and
\* _resolve_dict_templates(None, ...) raises AttributeError, which the
\* `except ConfigurationError` around it lets through.
LoadProviderConfig(file, layer) ==
    CASE file.kind = "missing" -> CfgError("provider configuration not found")
      [] file.kind = "empty" -> OtherError("AttributeError")
      [] OTHER ->
            LET resolved == ResolveDictTemplates(file.data, ProviderContext(layer))
            IN  IF resolved.raised THEN CfgError("template resolution failed")
                ELSE IF ~ValidProviderConfig(resolved.data)
                     THEN CfgError("invalid provider configuration")
                     ELSE [raised |-> FALSE, exc |-> "none", msg |-> "", provider |-> "",
                           config |-> resolved.data, creds |-> NoTargets]

\* --- vault/dev/layer{N}/cloud-credentials.yaml ---------------------------
\* A stored credential field: a string, or YAML null.
S(s) == [null |-> FALSE, s |-> s]
Null == [null |-> TRUE, s |-> ""]
CredsFile(providers) == [kind |-> "file", providers |-> providers]
\* The file is absent and no secret.* file of the layer directory lacks its sibling.
CredsMissing == [kind |-> "missing", providers |-> NoTargets]
\* The file is absent and some secret.* file of the layer directory lacks its sibling.
CredsEncrypted == [kind |-> "encrypted", providers |-> NoTargets]
LocalstackOnly ==
    [p \in {"localstack"} |->
        [f \in {"aws_access_key_id", "aws_secret_access_key"} |-> S("test")]]
BothProviders ==
    [p \in {"localstack", "aws-dev"} |->
        IF p = "localstack"
        THEN [f \in {"aws_access_key_id", "aws_secret_access_key"} |-> S("ls")]
        ELSE [f \in {"aws_access_key_id", "aws_secret_access_key", "aws_session_token",
                     "endpoint_hint"} |->
                CASE f = "aws_access_key_id" -> S("AKIA")
                  [] f = "aws_secret_access_key" -> S("s3cr3t")
                  [] f = "aws_session_token" -> Null
                  [] OTHER -> S("x")]]
TokenOnly == [p \in {"aws-dev"} |-> [f \in {"aws_session_token"} |-> S("tok")]]
CredsFiles ==
    {CredsMissing, CredsEncrypted, CredsFile(LocalstackOnly), CredsFile(BothProviders),
     CredsFile(TokenOnly)}

\* ProviderCredentials.validate_at_least_one_credential
HasField(fields, f) == f \in DOMAIN fields /\ ~fields[f].null /\ fields[f].s # ""
ValidProviderCredentials(fields) ==
    LET has_aws == HasField(fields, "aws_access_key_id") \/ HasField(fields, "aws_secret_access_key")
        has_gcp == HasField(fields, "gcp_credentials_json") \/ HasField(fields, "gcp_project_id")
        has_azure == \/ HasField(fields, "azure_subscription_id")
                     \/ HasField(fields, "azure_client_id")
                     \/ HasField(fields, "azure_client_secret")
    IN  has_aws \/ has_gcp \/ has_azure

\* load_cloud_credentials
LoadCloudCredentials(file) ==
    CASE file.kind = "encrypted" -> [raised |-> TRUE, msg |-> "cloud credentials not decrypted"]
      [] file.kind = "missing" -> [raised |-> TRUE, msg |-> "cloud credentials not found"]
      [] \E p \in DOMAIN file.providers : ~ValidProviderCredentials(file.providers[p]) ->
            [raised |-> TRUE, msg |-> "invalid cloud credentials"]
      [] OTHER -> [raised |-> FALSE, msg |-> "", providers |-> file.providers]

\* provider_creds.model_dump(exclude_none=True)
ModelDump(fields) == [f \in {g \in DOMAIN fields : ~fields[g].null} |-> fields[f].s]

\* The override_provider argument: None, or a string.
NoOverride == [set |-> FALSE, value |-> ""]
Override(p) == [set |-> TRUE, value |-> p]
Overrides == {NoOverride, Override(""), Override("localstack"), Override("aws-dev")}
\* `if override_provider:`
OverrideGiven(override) == override.set /\ override.value # ""

\* A plausible slip: the override is honoured whatever the environment says.
OverrideAllowed_Always(env_config) == TRUE

\* `env_config.allow_provider_override`
OverrideAllowed(env_config) == env_config.allow_provider_override

\* A plausible slip: the override is checked and then not used.
ProviderName_IgnoreOverride(env_config, layer_key, override) ==
    env_config.deployment_targets[layer_key]

\* The provider name get_cloud_provider settles on once the override is allowed.
ProviderName(env_config, layer_key, override) ==
    IF OverrideGiven(override) THEN override.value
    ELSE env_config.deployment_targets[layer_key]

\* get_cloud_provider(cfg, service, override_provider, config_root, vault_root);
\* roots tells which of config_root and vault_root the caller passed.
GetCloudProvider(layer, override, roots, files) ==
    IF roots = "no_config_root" THEN CfgError("config_root must be provided")
    ELSE IF roots = "no_vault_root" THEN CfgError("vault_root must be provided")
    ELSE
    LET env_config == LoadEnvironmentConfig(files.env)
        layer_key == LayerKey(layer)
    IN  IF env_config.raised THEN CfgError(env_config.msg)
        ELSE IF layer_key \notin DOMAIN env_config.deployment_targets
        THEN CfgError("no deployment target configured")
        ELSE IF OverrideGiven(override) /\ ~OverrideAllowed(env_config)
        THEN CfgError("provider override not allowed, set allow_provider_override")
        ELSE
        LET provider_name == ProviderName(env_config, layer_key, override)
            provider_config == LoadProviderConfig(files.providers[provider_name], layer)
            cloud_creds == LoadCloudCredentials(files.creds[layer_key])
        IN  IF provider_config.raised THEN provider_config
            ELSE IF cloud_creds.raised THEN CfgError(cloud_creds.msg)
            ELSE IF provider_name \notin DOMAIN cloud_creds.providers
            THEN CfgError("no credentials found for provider")
            ELSE [raised |-> FALSE, exc |-> "none", msg |-> "",
                  provider |-> provider_name, config |-> provider_config.config,
                  creds |-> ModelDump(cloud_creds.providers[provider_name])]

\* The calls of the model: every layer and override with both roots passed,
\* and one call for each missing root.
ProviderCalls ==
    {[layer |-> l, override |-> o, roots |-> "both"] : l \in KStackLayers, o \in Overrides}
      \cup {[layer |-> "LAYER_3_GLOBAL_INFRA", override |-> NoOverride, roots |-> r] :
               r \in {"no_config_root", "no_vault_root"}}

ProviderInit ==
    /\ cfgFiles \in [env : EnvFiles,
                     providers : {[p \in ProviderNames |->
                                     IF p = "localstack" THEN a ELSE b] :
                                  a \in LocalstackFiles, b \in AwsDevFiles},
                     creds : {[k \in {"layer0", "layer1", "layer2", "layer3"} |->
                                 IF k = "layer1" THEN c1
                                 ELSE IF k = "layer3" THEN c3 ELSE CredsMissing] :
                              c1 \in CredsFiles, c3 \in CredsFiles}]
    /\ provCall = NoCall

\* get_cloud_provider(cfg, service, override_provider, config_root, vault_root);
\* the call reads files and writes none, so a behaviour holds one call.
CallGetCloudProvider ==
    /\ provCall = NoCall
    /\ \E call \in ProviderCalls :
          provCall' = [op |-> "get_cloud_provider", layer |-> call.layer,
                       override |-> call.override, roots |-> call.roots,
                       out |-> GetCloudProvider(call.layer, call.override, call.roots,
                                                cfgFiles)]
    /\ UNCHANGED cfgFiles
    /\ UNCHANGED notProvider

ProviderNext == CallGetCloudProvider

(***************************************************************************)
(* KStackVault                                                             *)
(* A file is its directory below {vault_root}/{environment} and its name;  *)
(* a name is the sequence of its dot-separated components.                 *)
(***************************************************************************)
VaultPath(dir, name) == [dir |-> dir, name |-> name]

\* The files the model's vault can hold: a layer directory with an encrypted
\* file, its decrypted sibling and partsecrets' own metadata files, and a nested
\* directory with an encrypted file and its sibling.
VaultPaths ==
    {VaultPath("layer1", n) :
        n \in {<<"secret", "cloud-credentials", "yaml">>, <<"cloud-credentials", "yaml">>,
               <<"secret", "map", "cfg">>,
               <<"secret", "x", "conf">>, <<"secret", "y", "config">>}}
      \cup {VaultPath("layer3/keys", n) : n \in {<<"secret", "k", "json">>, <<"k", "json">>}}

\* Path.suffix of a name with a dot in it.
Suffix(name) == "." \o name[Len(name)]
\* A plausible slip: only .cfg files are skipped.
MetadataSuffixes_CfgOnly == {".cfg"}
\* The suffixes is_encrypted skips.
MetadataSuffixes == {".cfg", ".conf", ".config"}

\* The files path.rglob("secret.*") yields.
RGlobSecret(fs) == {p \in fs : Len(p.name) >= 2 /\ p.name[1] = "secret"}
\* secret_file.parent / secret_file.name.replace("secret.", "", 1)
DecryptedFile(p) == VaultPath(p.dir, Tail(p.name))

\* KStackVault.is_encrypted
IsEncrypted(fs) ==
    \E secret_file \in RGlobSecret(fs) :
       /\ Suffix(secret_file.name) \notin MetadataSuffixes
       /\ DecryptedFile(secret_file) \notin fs

\* The secret.* files partsecrets encrypts and decrypts.
ManagedFiles(fs) == {p \in RGlobSecret(fs) : Suffix(p.name) \notin {".cfg", ".conf", ".config"}}
\* `partsecrets reveal` that completed: every encrypted file has its sibling.
Reveal(fs) == fs \cup {DecryptedFile(p) : p \in ManagedFiles(fs)}
\* `partsecrets hide` that completed: the decrypted siblings are gone.
Hide(fs) == fs \ {DecryptedFile(p) : p \in ManagedFiles(fs)}

\* A plausible slip: only the failed exit status is caught.
ToolCaught_ExitOnly == {"CalledProcessError"}
\* The exceptions `except Exception` catches: all that run_command raises.
ToolCaught == RunOutcomes \ {"ok"}

VaultOut(result, exc, invoked, fs) ==
    [raised |-> exc # "none", exc |-> exc, result |-> result, invoked |-> invoked, fs |-> fs]

\* `if not self.is_encrypted():` of decrypt
AlreadyDecrypted(fs) == ~IsEncrypted(fs)

\* KStackVault.decrypt; tool is what the `partsecrets reveal` run does if made.
Decrypt(fs, tool) ==
    IF AlreadyDecrypted(fs) THEN VaultOut(TRUE, "none", 0, fs)
    ELSE IF tool = "ok" THEN VaultOut(TRUE, "none", 1, Reveal(fs))
    ELSE IF tool \in ToolCaught THEN VaultOut(FALSE, "none", 1, fs)
    ELSE VaultOut(FALSE, tool, 1, fs)

\* KStackVault.encrypt; tool is what the `partsecrets hide` run does.
Encrypt(fs, tool) ==
    IF tool = "ok" THEN VaultOut(TRUE, "none", 1, Hide(fs))
    ELSE IF tool \in ToolCaught THEN VaultOut(FALSE, "none", 1, fs)
    ELSE VaultOut(FALSE, tool, 1, fs)

\* An entry that does not look at what decrypt() returned.
Enter_IgnoresResult(fs, tool) ==
    IF IsEncrypted(fs) THEN Decrypt(fs, tool) ELSE VaultOut(TRUE, "none", 0, fs)

\* KStackVault.__enter__
Enter(fs, tool) ==
    IF IsEncrypted(fs)
    THEN LET d == Decrypt(fs, tool)
         IN  IF d.raised THEN d
             ELSE IF ~d.result THEN VaultOut(FALSE, "RuntimeError", d.invoked, d.fs)
             ELSE d
    ELSE VaultOut(TRUE, "none", 0, fs)

\* KStackVault.__exit__: the result of encrypt() is dropped.
Exit(fs, tool) ==
    IF ~IsEncrypted(fs)
    THEN LET e == Encrypt(fs, tool) IN VaultOut(TRUE, e.exc, e.invoked, e.fs)
    ELSE VaultOut(TRUE, "none", 0, fs)

Call(op, tool, before, out) ==
    [op |-> op, tool |-> tool, was_encrypted |-> IsEncrypted(before),
     managed |-> ManagedFiles(before) # {}, raised |-> out.raised, exc |-> out.exc,
     result |-> out.result, invoked |-> out.invoked]

VaultInit ==
    /\ vaultFS \in SUBSET VaultPaths
    /\ scopePc = "outside"
    /\ vaultCall = NoCall

\* vault.is_encrypted()
CallIsEncrypted ==
    /\ vaultCall' = Call("is_encrypted", "none", vaultFS,
                         VaultOut(IsEncrypted(vaultFS), "none", 0, vaultFS))
    /\ UNCHANGED <<vaultFS, scopePc>>
    /\ UNCHANGED notVault

\* vault.decrypt()
CallDecrypt ==
    /\ \E tool \in RunOutcomes :
          LET out == Decrypt(vaultFS, tool)
          IN  /\ vaultFS' = out.fs
              /\ vaultCall' = Call("decrypt", tool, vaultFS, out)
              /\ UNCHANGED scopePc
    /\ UNCHANGED notVault

\* vault.encrypt()
CallEncrypt ==
    /\ \E tool \in RunOutcomes :
          LET out == Encrypt(vaultFS, tool)
          IN  /\ vaultFS' = out.fs
              /\ vaultCall' = Call("encrypt", tool, vaultFS, out)
              /\ UNCHANGED scopePc
    /\ UNCHANGED notVault

\* `with vault:` is entered; the block is reached only if __enter__ returns.
EnterScope ==
    /\ scopePc = "outside"
    /\ \E tool \in RunOutcomes :
          LET out == Enter(vaultFS, tool)
          IN  /\ vaultFS' = out.fs
              /\ vaultCall' = Call("__enter__", tool, vaultFS, out)
              /\ scopePc' = IF out.raised THEN "outside" ELSE "inside"
    /\ UNCHANGED notVault

\* The block ends, normally or with an exception, and __exit__ runs.
LeaveScope ==
    /\ scopePc = "inside"
    /\ \E tool \in RunOutcomes, body_raised \in BOOLEAN :
          LET out == Exit(vaultFS, tool)
          IN  /\ vaultFS' = out.fs
              /\ vaultCall' = [Call("__exit__", tool, vaultFS, out) EXCEPT
                                 !.raised = body_raised \/ out.raised]
              /\ scopePc' = "outside"
    /\ UNCHANGED notVault

(***************************************************************************)
(* Context detection (any/context.py), the import guards of local/ and     *)
(* cluster/, ClusterBase, the IoC container, SecretsProvider.load_secrets  *)
(***************************************************************************)
NoFile == [exists |-> FALSE, text |-> ""]
FileText(t) == [exists |-> TRUE, text |-> t]

\* What read_text().strip() gives for the namespace file: nothing, or a name.
NamespaceTexts == {"", "layer-3-global-infra"}
NamespaceFiles == {NoFile} \cup {FileText(t) : t \in NamespaceTexts}

EmptyCache == [cached |-> FALSE, value |-> FALSE]
Cached(v) == [cached |-> TRUE, value |-> v]

\* is_in_cluster without its lru_cache: the token file is looked at every time.
IsInCluster_Uncached(cache, token) ==
    [value |-> token, cache |-> Cached(token), checked |-> TRUE]

\* is_in_cluster(): the value, the cache afterwards, and whether the token file
\* was looked at.
IsInCluster(cache, token) ==
    IF cache.cached
    THEN [value |-> cache.value, cache |-> cache, checked |-> FALSE]
    ELSE [value |-> token, cache |-> Cached(token), checked |-> TRUE]

\* The modules that import a guard, and the classes they define.
LocalModules ==
    {"kstack_lib.local.config.environment", "kstack_lib.local.security.credentials",
     "kstack_lib.local.security.vault"}
ClusterModules ==
    {"kstack_lib.cluster.config.environment", "kstack_lib.cluster.security.secrets"}
GuardedModules == LocalModules \cup ClusterModules

LocalClasses == {"LocalEnvironmentDetector", "LocalCredentialsProvider", "KStackVault"}
ClusterClasses ==
    {"ClusterEnvironmentDetector", "ClusterSecretsProvider", "ClusterBaseSubclass"}
Classes == LocalClasses \cup ClusterClasses

\* The guarded module a class lives in; a ClusterBase subclass has none, its
\* check is in ClusterBase.__init__.
ClassModule(cls) ==
    CASE cls = "LocalEnvironmentDetector" -> "kstack_lib.local.config.environment"
      [] cls = "LocalCredentialsProvider" -> "kstack_lib.local.security.credentials"
      [] cls = "KStackVault" -> "kstack_lib.local.security.vault"
      [] cls = "ClusterEnvironmentDetector" -> "kstack_lib.cluster.config.environment"
      [] cls = "ClusterSecretsProvider" -> "kstack_lib.cluster.security.secrets"
      [] OTHER -> "none"

\* credentials.py imports KStackVault from the vault module after its guard.
ModuleImports(m) ==
    IF m = "kstack_lib.local.security.credentials"
    THEN {m, "kstack_lib.local.security.vault"} ELSE {m}

\* The process state the operations below thread through.
ProcState(cache, modules, insts, single) ==
    [cache |-> cache, modules |-> modules, instances |-> insts, singletons |-> single]

\* built: this call ran the factory of a container provider.
CtxOk(inst, st) ==
    [raised |-> FALSE, exc |-> "", inst |-> inst, built |-> FALSE, st |-> st]
CtxRaise(exc, st) ==
    [raised |-> TRUE, exc |-> exc, inst |-> "none", built |-> FALSE, st |-> st]

\* The guard without its test: the module loads in either context.
GuardRaises_Never(m, in_cluster) == FALSE

\* local/_guards.py raises in-cluster, cluster/_guards.py raises outside.
GuardRaises(m, in_cluster) ==
    IF m \in LocalModules THEN in_cluster ELSE ~in_cluster

\* import of a guarded module: a module already loaded is not run again; a
\* module whose guard raises is not kept in sys.modules.
ImportModule(m, st, token) ==
    IF m = "none" \/ m \in st.modules THEN CtxOk("none", st)
    ELSE LET c == IsInCluster(st.cache, token)
             after == [st EXCEPT !.cache = c.cache]
         IN  IF GuardRaises(m, c.value)
             THEN CtxRaise("KStackEnvironmentError", after)
             ELSE CtxOk("none", [after EXCEPT !.modules = @ \cup ModuleImports(m)])

\* ClusterBase._check_cluster_context
CheckClusterContext(st, token) ==
    LET c == IsInCluster(st.cache, token)
        after == [st EXCEPT !.cache = c.cache]
    IN  IF ~c.value THEN CtxRaise("KStackEnvironmentError", after)
        ELSE CtxOk("none", after)

\* cls(...) with the module imported: __init__.  dir_ok: the vault directory
\* of the environment exists.
InitInstance(cls, st, token, ns, dir_ok) ==
    LET made == CtxOk(cls, [st EXCEPT !.instances = @ \cup {cls}])
    IN  CASE cls = "ClusterBaseSubclass" ->
               LET chk == CheckClusterContext(st, token)
               IN  IF chk.raised THEN chk
                   ELSE CtxOk(cls, [chk.st EXCEPT !.instances = @ \cup {cls}])
          [] cls \in {"ClusterEnvironmentDetector", "ClusterSecretsProvider"} ->
               IF ~ns.exists THEN CtxRaise("KStackConfigurationError", st) ELSE made
          [] cls = "KStackVault" ->
               IF ~dir_ok THEN CtxRaise("FileNotFoundError", st) ELSE made
          [] OTHER -> made

\* Importing the module of cls and constructing an instance.
Construct(cls, st, token, ns, dir_ok) ==
    LET imp == ImportModule(ClassModule(cls), st, token)
    IN  IF imp.raised THEN imp ELSE InitInstance(cls, imp.st, token, ns, dir_ok)

ContainerProviders == {"environment_detector", "secrets_provider", "vault_manager"}
NoSingletons == [p \in ContainerProviders |-> "none"]

\* providers.Singleton: the instance is kept once the factory has returned.
Keep(p, r) ==
    IF r.raised THEN r
    ELSE [CtxOk(r.inst, [r.st EXCEPT !.singletons[p] = r.inst]) EXCEPT !.built = TRUE]

\* A selector that does not ask the context detector.
ContextSelector_Local(in_cluster) == "local"

\* _context_selector
ContextSelector(in_cluster) == IF in_cluster THEN "cluster" ELSE "local"

\* container.environment_detector()
EnvironmentDetector(st, token, ns) ==
    IF st.singletons["environment_detector"] # "none"
    THEN CtxOk(st.singletons["environment_detector"], st)
    ELSE LET c == IsInCluster(st.cache, token)
             cls == IF ContextSelector(c.value) = "cluster"
                    THEN "ClusterEnvironmentDetector"
                    ELSE "LocalEnvironmentDetector"
         IN  Keep("environment_detector",
                  Construct(cls, [st EXCEPT !.cache = c.cache], token, ns, TRUE))

\* container.vault_manager(): the detector is injected first, then the lambda
\* imports the vault module, asks the detector for the environment (env_ok: it
\* answers) and constructs the vault.
VaultManager(st, token, ns, env_ok, dir_ok) ==
    IF st.singletons["vault_manager"] # "none"
    THEN CtxOk(st.singletons["vault_manager"], st)
    ELSE LET det == EnvironmentDetector(st, token, ns)
         IN  IF det.raised THEN det
             ELSE LET imp == ImportModule("kstack_lib.local.security.vault", det.st, token)
                  IN  IF imp.raised THEN imp
                      ELSE IF ~env_ok THEN CtxRaise("KStackConfigurationError", imp.st)
                      ELSE Keep("vault_manager",
                                InitInstance("KStackVault", imp.st, token, ns, dir_ok))

\* container.secrets_provider()
SecretsProvider(st, token, ns, env_ok, dir_ok) ==
    IF st.singletons["secrets_provider"] # "none"
    THEN CtxOk(st.singletons["secrets_provider"], st)
    ELSE LET c == IsInCluster(st.cache, token)
             st1 == [st EXCEPT !.cache = c.cache]
         IN  IF ContextSelector(c.value) = "cluster"
             THEN Keep("secrets_provider",
                       Construct("ClusterSecretsProvider", st1, token, ns, TRUE))
             ELSE LET vault == VaultManager(st1, token, ns, env_ok, dir_ok)
                  IN  IF vault.raised THEN vault
                      ELSE LET det == EnvironmentDetector(vault.st, token, ns)
                               imp == ImportModule("kstack_lib.local.security.credentials",
                                                   det.st, token)
                           IN  IF det.raised THEN det
                               ELSE IF imp.raised THEN imp
                               ELSE IF ~env_ok
                                    THEN CtxRaise("KStackConfigurationError", imp.st)
                               ELSE Keep("secrets_provider",
                                         InitInstance("LocalCredentialsProvider", imp.st,
                                                      token, ns, dir_ok))

Resolve(p, st, token, ns, env_ok, dir_ok) ==
    CASE p = "environment_detector" -> EnvironmentDetector(st, token, ns)
      [] p = "vault_manager" -> VaultManager(st, token, ns, env_ok, dir_ok)
      [] OTHER -> SecretsProvider(st, token, ns, env_ok, dir_ok)

\* ConfigMap.running_in_k8s(): the namespace file exists.
RunningInK8s(ns) == ns.exists

\* SecretsProvider.get_current_namespace(): the ConfigMap's namespace, else the
\* text of the namespace file.
GetCurrentNamespace(config_map, ns) ==
    IF config_map # "none" THEN LayerNamespace(config_map) ELSE ns.text

\* What `kubectl get secret` does: subprocess.run raises, or returns the output.
KubectlOutcomes ==
    {"FileNotFoundError", "CalledProcessError", "invalid_json", "no_data",
     "bad_base64", "bad_utf8", "valid"}
K8sSecrets == [k \in {"redis-password"} |-> "hunter2"]

SecretsOk(source, s) == [raised |-> FALSE, exc |-> "", secrets |-> s, source |-> source]
SecretsRaise(source, exc) ==
    [raised |-> TRUE, exc |-> exc, secrets |-> EmptyDict, source |-> source]

\* subprocess.run raised before `import json` ran in the function body: the
\* except clause names json.JSONDecodeError, json is an unbound local.
K8sReadError(kubectl) == SecretsRaise("k8s", "UnboundLocalError")

\* SecretsProvider.load_secrets_from_k8s
LoadSecretsFromK8s(namespace, kubectl) ==
    CASE namespace = "" -> SecretsOk("k8s", EmptyDict)
      [] kubectl \in {"FileNotFoundError", "CalledProcessError"} -> K8sReadError(kubectl)
      [] kubectl = "invalid_json" -> SecretsOk("k8s", EmptyDict)
      [] kubectl = "no_data" -> SecretsOk("k8s", EmptyDict)
      [] kubectl = "bad_base64" -> SecretsRaise("k8s", "binascii.Error")
      [] kubectl = "bad_utf8" -> SecretsRaise("k8s", "UnicodeDecodeError")
      [] OTHER -> SecretsOk("k8s", K8sSecrets)

\* SecretsProvider.load_secrets
LoadSecretsOf(layer, config_map, ns, kubectl, exists, v) ==
    IF RunningInK8s(ns)
    THEN LoadSecretsFromK8s(GetCurrentNamespace(config_map, ns), kubectl)
    ELSE LET r == LoadSecretsFromVault(layer, exists, v)
         IN  IF r.raised THEN SecretsRaise("vault", "TypeError")
             ELSE SecretsOk("vault", r.secrets)

ContextInit ==
    /\ tokenFile \in BOOLEAN
    /\ namespaceFile \in NamespaceFiles
    /\ inClusterCache = EmptyCache
    /\ sysModules = {}
    /\ instances = {}
    /\ singletons = NoSingletons
    /\ ctxCall = NoCall

Proc == ProcState(inClusterCache, sysModules, instances, singletons)

Became(st) ==
    /\ inClusterCache' = st.cache
    /\ sysModules' = st.modules
    /\ instances' = st.instances
    /\ singletons' = st.singletons

\* The value is_in_cluster() has at this point of the process.
InClusterNow == IsInCluster(inClusterCache, tokenFile).value

\* The service-account files appear or disappear while the process runs.
ChangeFiles ==
    /\ \E t \in BOOLEAN, n \in NamespaceFiles :
          /\ <<t, n>> # <<tokenFile, namespaceFile>>
          /\ tokenFile' = t
          /\ namespaceFile' = n
    /\ UNCHANGED <<inClusterCache, sysModules, instances, singletons, ctxCall>>
    /\ UNCHANGED notContext

CallIsInCluster ==
    /\ LET c == IsInCluster(inClusterCache, tokenFile)
       IN  /\ inClusterCache' = c.cache
           /\ ctxCall' = [op |-> "is_in_cluster", arg |-> "", in_cluster |-> InClusterNow,
                          prior |-> inClusterCache, token |-> tokenFile,
                          ns_exists |-> namespaceFile.exists,
                          checked |-> c.checked, value |-> c.value,
                          raised |-> FALSE, exc |-> "", inst |-> "none",
                          built |-> FALSE, held |-> "none",
                          detector |-> singletons["environment_detector"],
                          source |-> "", secrets |-> EmptyDict]
    /\ UNCHANGED <<tokenFile, namespaceFile, sysModules, instances, singletons>>
    /\ UNCHANGED notContext

CtxCall(op, arg, r) ==
    [op |-> op, arg |-> arg, in_cluster |-> InClusterNow, prior |-> inClusterCache,
     token |-> tokenFile, ns_exists |-> namespaceFile.exists,
     checked |-> FALSE, value |-> FALSE,
     raised |-> r.raised, exc |-> r.exc, inst |-> r.inst, built |-> r.built,
     held |-> IF op = "resolve" THEN singletons[arg] ELSE "none",
     detector |-> singletons["environment_detector"],
     source |-> "", secrets |-> EmptyDict]

CallImport ==
    /\ \E m \in GuardedModules :
          LET r == ImportModule(m, Proc, tokenFile)
          IN  /\ Became(r.st)
              /\ ctxCall' = CtxCall("import", m, r)
    /\ UNCHANGED <<tokenFile, namespaceFile>>
    /\ UNCHANGED notContext

CallConstruct ==
    /\ \E cls \in Classes, dir_ok \in BOOLEAN :
          LET r == Construct(cls, Proc, tokenFile, namespaceFile, dir_ok)
          IN  /\ Became(r.st)
              /\ ctxCall' = CtxCall("construct", cls, r)
    /\ UNCHANGED <<tokenFile, namespaceFile>>
    /\ UNCHANGED notContext

CallResolveProvider ==
    /\ \E p \in ContainerProviders, env_ok \in BOOLEAN, dir_ok \in BOOLEAN :
          LET r == Resolve(p, Proc, tokenFile, namespaceFile, env_ok, dir_ok)
          IN  /\ Became(r.st)
              /\ ctxCall' = CtxCall("resolve", p, r)
    /\ UNCHANGED <<tokenFile, namespaceFile>>
    /\ UNCHANGED notContext

CallLoadSecrets ==
    /\ \E layer \in LayerNames, config_map \in {"none", "LAYER_3_GLOBAL_INFRA"},
          kubectl \in KubectlOutcomes :
          LET r == LoadSecretsOf(layer, config_map, namespaceFile, kubectl,
                                 envDirExists, vaultFiles)
          IN  ctxCall' = [op |-> "load_secrets", arg |-> kubectl,
                          in_cluster |-> InClusterNow, prior |-> inClusterCache,
                          token |-> tokenFile, ns_exists |-> namespaceFile.exists,
                          checked |-> FALSE, value |-> FALSE,
                          raised |-> r.raised, exc |-> r.exc, inst |-> "none",
                          built |-> FALSE, held |-> "none", source |-> r.source, secrets |-> r.secrets]
    /\ UNCHANGED <<tokenFile, namespaceFile, inClusterCache, sysModules, instances,
                   singletons>>
    /\ UNCHANGED notContext

ContextNext ==
    \/ ChangeFiles
    \/ CallIsInCluster
    \/ CallImport
    \/ CallConstruct
    \/ CallResolveProvider
    \/ CallLoadSecrets

(***************************************************************************)
(* load_cloud_credentials and the layer directory it looks into            *)
(* A file of the layer directory is its sub-directory ("" for the layer    *)
(* directory itself) and its name, as for the vault above.                 *)
(***************************************************************************)
CredsFilePath == VaultPath("", <<"cloud-credentials", "yaml">>)

\* The files the model's layer directory can hold: the credentials file, its
\* encrypted form, a partsecrets metadata file with and without a sibling,
\* and an encrypted file in a sub-directory.
LayerDirPaths ==
    {CredsFilePath,
     VaultPath("", <<"secret", "cloud-credentials", "yaml">>),
     VaultPath("", <<"secret", "map", "cfg">>),
     VaultPath("", <<"map", "cfg">>),
     VaultPath("keys", <<"secret", "k", "json">>)}

\* The layer directory: absent, or its files and what cloud-credentials.yaml
\* holds when it is among them.
NoLayerDir == [exists |-> FALSE, files |-> {}, providers |-> NoTargets]
LayerDir(files, providers) == [exists |-> TRUE, files |-> files, providers |-> providers]
CredsLayerDirs ==
    {NoLayerDir}
      \cup {LayerDir(fs, NoTargets) : fs \in SUBSET (LayerDirPaths \ {CredsFilePath})}
      \cup {LayerDir(fs \cup {CredsFilePath}, ps) :
               fs \in SUBSET (LayerDirPaths \ {CredsFilePath}),
               ps \in {LocalstackOnly, BothProviders, TokenOnly}}

\* vault_layer_dir.glob("secret.*"): the entries of the directory itself.
GlobSecret(files) ==
    {p \in files : p.dir = "" /\ Len(p.name) >= 2 /\ p.name[1] = "secret"}

\* A scan that, like KStackVault.is_encrypted, skips the metadata suffixes.
LacksDecrypted_SkipMetadata(secret_file, files) ==
    Suffix(secret_file.name) \notin MetadataSuffixes /\ DecryptedFile(secret_file) \notin files

\* `if not decrypted_file.exists():` for one secret.* file
LacksDecrypted(secret_file, files) == DecryptedFile(secret_file) \notin files

\* is_vault_encrypted of load_cloud_credentials
IsVaultEncrypted(dir) ==
    dir.exists /\ \E secret_file \in GlobSecret(dir.files) : LacksDecrypted(secret_file, dir.files)

\* What load_cloud_credentials finds at creds_file.
CredsFileAt(dir) ==
    IF dir.exists /\ CredsFilePath \in dir.files THEN CredsFile(dir.providers)
    ELSE IF IsVaultEncrypted(dir) THEN CredsEncrypted
    ELSE CredsMissing

\* load_cloud_credentials(environment, layer, vault_dir) on a layer directory
LoadCloudCredentialsIn(dir) == LoadCloudCredentials(CredsFileAt(dir))

CredsInit ==
    /\ credsDir \in CredsLayerDirs
    /\ credsCall = NoCall

\* Files of the layer directory come and go (partsecrets, the operator).
ChangeLayerDir ==
    /\ \E d \in CredsLayerDirs : d # credsDir /\ credsDir' = d
    /\ UNCHANGED credsCall
    /\ UNCHANGED notCreds

CallLoadCloudCredentials ==
    /\ LET r == LoadCloudCredentialsIn(credsDir)
       IN  credsCall' = [op |-> "load_cloud_credentials", dir |-> credsDir,
                         raised |-> r.raised, msg |-> r.msg,
                         returned |-> IF r.raised THEN NoTargets ELSE r.providers]
    /\ UNCHANGED credsDir
    /\ UNCHANGED notCreds

CredsNext == ChangeLayerDir \/ CallLoadCloudCredentials

(***************************************************************************)
(* LocalCredentialsProvider.get_credentials                                *)
(***************************************************************************)
\* What yaml.safe_load makes of the credentials file: it fails, or gives None
\* (an empty document), or a mapping without or with the service.
CredsContents == {"unparseable", "null", "without_service", "with_service"}
VaultEnvironment == "dev"

CredsOut(exc, fs, reveal, hide) ==
    [raised |-> exc # "none", exc |-> exc, fs |-> fs, reveal |-> reveal, hide |-> hide]

\* Reading the file once the vault is (thought to be) decrypted.
ReadCredentials(fs, layer, content, reveal, hide) ==
    IF VaultPath(layer, <<"cloud-credentials", "yaml">>) \notin fs
    THEN CredsOut("KStackServiceNotFoundError", fs, reveal, hide)
    ELSE IF content = "unparseable" THEN CredsOut("KStackConfigurationError", fs, reveal, hide)
    ELSE IF content = "null" THEN CredsOut("TypeError", fs, reveal, hide)
    ELSE IF content = "without_service"
    THEN CredsOut("KStackServiceNotFoundError", fs, reveal, hide)
    ELSE CredsOut("none", fs, reveal, hide)

\* A plausible slip: the vault is used as a `with` block, which encrypts it
\* again on the way out.
GetCredentials_Scoped(fs, layer, environment, content, tool) ==
    IF environment # VaultEnvironment THEN CredsOut("KStackConfigurationError", fs, 0, 0)
    ELSE
    LET d == Decrypt(fs, tool)
    IN  IF IsEncrypted(fs) /\ ~d.result
        THEN CredsOut("KStackConfigurationError", d.fs, d.invoked, 0)
        ELSE LET r == ReadCredentials(d.fs, layer, content, d.invoked, 0)
             IN  CredsOut(r.exc, Hide(r.fs), r.reveal, 1)

\* LocalCredentialsProvider.get_credentials(service, layer, environment);
\* content is what the credentials file holds for the service, tool what a
\* `partsecrets reveal` run does if one is made.
GetCredentials(fs, layer, environment, content, tool) ==
    IF environment # VaultEnvironment THEN CredsOut("KStackConfigurationError", fs, 0, 0)
    ELSE IF IsEncrypted(fs)
    THEN LET d == Decrypt(fs, tool)
         IN  IF ~d.result THEN CredsOut("KStackConfigurationError", d.fs, d.invoked, 0)
             ELSE ReadCredentials(d.fs, layer, content, d.invoked, 0)
    ELSE ReadCredentials(fs, layer, content, 0, 0)

CallGetCredentials ==
    /\ \E layer \in {"layer1", "layer3"}, environment \in {"dev", "staging"},
          content \in CredsContents, tool \in RunOutcomes :
          LET r == GetCredentials(vaultFS, layer, environment, content, tool)
          IN  /\ vaultFS' = r.fs
              /\ vaultCall' = [op |-> "get_credentials", tool |-> tool,
                               was_encrypted |-> IsEncrypted(vaultFS),
                               managed |-> ManagedFiles(vaultFS) # {},
                               raised |-> r.raised, exc |-> r.exc,
                               result |-> ~r.raised, invoked |-> r.reveal,
                               hide |-> r.hide, fs_before |-> vaultFS,
                               environment |-> environment]
    /\ UNCHANGED scopePc
    /\ UNCHANGED notVault

(***************************************************************************)
(* load_cloud_credentials on the vault KStackVault manages                 *)
(***************************************************************************)
\* {vault_dir}/{environment}/layer{N} as load_cloud_credentials sees it in the
\* vault's files: the directory exists when the vault holds a file below it.
LayerDirIn(fs, layer) ==
    LET below == {p \in fs : p.dir \in {layer, layer \o "/keys"}}
    IN  IF below = {} THEN NoLayerDir
        ELSE LayerDir({VaultPath(IF p.dir = layer THEN "" ELSE "keys", p.name) : p \in below},
                      LocalstackOnly)

\* load_cloud_credentials(environment, layer, vault_dir) beside the vault's own
\* operations; the vault's files do not change.
CallLoadCredentialsOfLayer ==
    /\ \E layer \in LayerNames :
          LET r == LoadCloudCredentialsIn(LayerDirIn(vaultFS, layer))
          IN  vaultCall' = [op |-> "load_cloud_credentials", tool |-> "none",
                            was_encrypted |-> IsEncrypted(vaultFS),
                            managed |-> ManagedFiles(vaultFS) # {},
                            raised |-> r.raised,
                            exc |-> IF r.raised THEN "ConfigurationError" ELSE "none",
                            result |-> FALSE, invoked |-> 0,
                            layer |-> layer, msg |-> r.msg]
    /\ UNCHANGED <<vaultFS, scopePc>>
    /\ UNCHANGED notVault

VaultNext ==
    \/ CallIsEncrypted
    \/ CallDecrypt
    \/ CallEncrypt
    \/ EnterScope
    \/ LeaveScope
    \/ CallLoadCredentialsOfLayer
    \/ CallGetCredentials

(***************************************************************************)
(* ProviderCredentials validation                                          *)
(***************************************************************************)
CredentialFields ==
    {"aws_access_key_id", "aws_secret_access_key", "aws_session_token",
     "gcp_credentials_json", "gcp_project_id",
     "azure_subscription_id", "azure_tenant_id", "azure_client_id", "azure_client_secret"}

\* A field is None (its default), the empty string, or a non-empty string.
FieldValues == {Null, S(""), S("v")}

SchemaInit == credsDir = NoLayerDir /\ credsCall = NoCall

\* ProviderCredentials(**fields), once per behaviour
CallValidate ==
    /\ credsCall = NoCall
    /\ \E fields \in [CredentialFields -> FieldValues] :
          credsCall' = [op |-> "ProviderCredentials", fields |-> fields,
                        valid |-> ValidProviderCredentials(fields)]
    /\ UNCHANGED credsDir
    /\ UNCHANGED notCreds

SchemaNext == CallValidate

(***************************************************************************)
(* KStackLayer lookups                                                     *)
(* A string is a sequence of pieces: a whitespace character, a digit, "-", *)
(* or a run of letters in one of three spellings (lower, UPPER, Capital).  *)
(***************************************************************************)
DigitChars == {"0", "1", "2", "3", "5", "9"}
DigitValue(c) ==
    CASE c = "0" -> 0 [] c = "1" -> 1 [] c = "2" -> 2 [] c = "3" -> 3
      [] c = "5" -> 5 [] OTHER -> 9

LowerWords ==
    {"layer", "applications", "tenant-infra", "global-services", "global-infra",
     "invalid-layer", "layer_3_global_infra", "prod"}

\* str.upper() and str.capitalize()-like spellings of a run of letters.
UpperWord(w) ==
    CASE w = "layer" -> "LAYER"
      [] w = "applications" -> "APPLICATIONS"
      [] w = "tenant-infra" -> "TENANT-INFRA"
      [] w = "global-services" -> "GLOBAL-SERVICES"
      [] w = "global-infra" -> "GLOBAL-INFRA"
      [] w = "invalid-layer" -> "INVALID-LAYER"
      [] w = "layer_3_global_infra" -> "LAYER_3_GLOBAL_INFRA"
      [] w = "prod" -> "PROD"
      [] OTHER -> w
CapitalWord(w) ==
    CASE w = "layer" -> "Layer"
      [] w = "applications" -> "Applications"
      [] w = "tenant-infra" -> "Tenant-Infra"
      [] w = "global-services" -> "Global-Services"
      [] w = "global-infra" -> "Global-Infra"
      [] w = "invalid-layer" -> "Invalid-Layer"
      [] w = "layer_3_global_infra" -> "Layer_3_Global_Infra"
      [] w = "prod" -> "Prod"
      [] OTHER -> w

\* str.lower() of one piece, and of a string.
LowerPiece(c) ==
    IF \E w \in LowerWords : c \in {UpperWord(w), CapitalWord(w)}
    THEN CHOOSE w \in LowerWords : c \in {UpperWord(w), CapitalWord(w)}
    ELSE c
Lower(s) == [i \in 1..Len(s) |-> LowerPiece(s[i])]

\* The characters of a string, joined.
RECURSIVE Joined(_)
Joined(s) == IF s = <<>> THEN "" ELSE Head(s) \o Joined(Tail(s))

\* str.isdigit(): not empty, digits only.
IsDigit(s) == s # <<>> /\ \A i \in 1..Len(s) : s[i] \in DigitChars

\* int() of a string of digits.
RECURSIVE ToInt(_)
ToInt(s) ==
    IF s = <<>> THEN 0 ELSE 10 * ToInt(SubSeq(s, 1, Len(s) - 1)) + DigitValue(s[Len(s)])

LayerFound(layer) == [raised |-> FALSE, exc |-> "", msg |-> "", layer |-> layer]
LayerError(msg) == [raised |-> TRUE, exc |-> "ValueError", msg |-> msg, layer |-> "none"]

\* The four members in definition order, as `for layer in cls` visits them.
LayerOrder ==
    <<"LAYER_0_APPLICATIONS", "LAYER_1_TENANT_INFRA", "LAYER_2_GLOBAL_SERVICES",
      "LAYER_3_GLOBAL_INFRA">>

\* The first member, from member i on, that has the property.
RECURSIVE FirstLayer(_, _)
FirstLayer(Has(_), i) ==
    IF i > Len(LayerOrder) THEN "none"
    ELSE IF Has(LayerOrder[i]) THEN LayerOrder[i] ELSE FirstLayer(Has, i + 1)

\* KStackLayer.from_number
FromNumber(num) ==
    LET Has(layer) == LayerNumber(layer) = num
        found == FirstLayer(Has, 1)
    IN  IF found # "none" THEN LayerFound(found)
        ELSE LayerError("Invalid layer number: {num}")

\* KStackLayer.from_namespace
FromNamespace(namespace) ==
    LET Has(layer) == LayerNamespace(layer) = namespace
        found == FirstLayer(Has, 1)
    IN  IF found # "none" THEN LayerFound(found)
        ELSE LayerError("Unknown namespace: {namespace}")

\* alias_map of from_string
AliasMap(alias) ==
    CASE alias = "layer0" -> "LAYER_0_APPLICATIONS"
      [] alias = "layer1" -> "LAYER_1_TENANT_INFRA"
      [] alias = "layer2" -> "LAYER_2_GLOBAL_SERVICES"
      [] alias = "layer3" -> "LAYER_3_GLOBAL_INFRA"
      [] OTHER -> "none"

\* cls(value): the member whose value it is, or "none" for the ValueError.
EnumOfValue(value) ==
    LET Has(layer) == LayerNamespace(layer) = value IN FirstLayer(Has, 1)

\* KStackLayer.from_string
FromString(value) ==
    LET value_lower == Strip(Lower(value))
        text == Joined(value_lower)
    IN  IF AliasMap(text) # "none" THEN LayerFound(AliasMap(text))
        ELSE IF IsDigit(value_lower) THEN FromNumber(ToInt(value_lower))
        ELSE IF EnumOfValue(text) # "none" THEN LayerFound(EnumOfValue(text))
        ELSE LayerError("Invalid layer: '{value}'. Use: layer0, layer1, layer2, layer3 (or full names: layer-0-applications, etc.)")

\* The strings the lookups are tried on: for each layer its number, its alias
\* and its full name, and strings that are none of these; each in the three
\* spellings and with whitespace around it.
LayerWord(layer) ==
    CASE layer = "LAYER_0_APPLICATIONS" -> "applications"
      [] layer = "LAYER_1_TENANT_INFRA" -> "tenant-infra"
      [] layer = "LAYER_2_GLOBAL_SERVICES" -> "global-services"
      [] OTHER -> "global-infra"
NumberString(layer) == <<Digit(LayerNumber(layer))>>
AliasString(layer) == <<"layer", Digit(LayerNumber(layer))>>
FullName(layer) == <<"layer", "-", Digit(LayerNumber(layer)), "-", LayerWord(layer)>>
LayerStrings(layer) == {NumberString(layer), AliasString(layer), FullName(layer)}
OtherStrings ==
    {<<>>, <<"5">>, <<"0", "3">>, <<"9", "9">>, <<"layer", "9", "9">>, <<"invalid-layer">>,
     <<"layer", " ", "3">>, <<"layer_3_global_infra">>, <<"layer", "-", "3">>,
     <<"layer", "-", "3", "-", "applications">>}
Spellings(s) ==
    {s, [i \in 1..Len(s) |-> UpperWord(s[i])], [i \in 1..Len(s) |-> CapitalWord(s[i])]}
Padded(s) == {l \o s \o r : l \in {<<>>, <<" ">>, <<"\t">>}, r \in {<<>>, <<" ", "\n">>}}
LookupStrings ==
    UNION {Padded(v) : v \in UNION {Spellings(s) :
              s \in OtherStrings \cup UNION {LayerStrings(layer) : layer \in KStackLayers}}}
MaxNumber == 5
LookupNumbers == 0..MaxNumber \cup {-1, 99}

LayerInit == layerCall = NoCall

CallFromNumber ==
    /\ \E num \in LookupNumbers :
          layerCall' = [op |-> "from_number", num |-> num, str |-> <<>>,
                        out |-> FromNumber(num)]
    /\ UNCHANGED notLayer

CallFromNamespace ==
    /\ \E namespace \in LookupStrings :
          layerCall' = [op |-> "from_namespace", num |-> 0, str |-> namespace,
                        out |-> FromNamespace(Joined(namespace))]
    /\ UNCHANGED notLayer

CallFromString ==
    /\ \E value \in LookupStrings :
          layerCall' = [op |-> "from_string", num |-> 0, str |-> value,
                        out |-> FromString(value)]
    /\ UNCHANGED notLayer

\* --- ClusterEnvironmentDetector.get_environment --------------------------
\* str.split(sep) of a string whose pieces are the separator or hold none.
RECURSIVE Split(_, _)
Split(s, sep) ==
    IF \A i \in 1..Len(s) : s[i] # sep THEN <<s>>
    ELSE LET i == CHOOSE j \in 1..Len(s) : s[j] = sep /\ \A k \in 1..(j - 1) : s[k] # sep
         IN  <<SubSeq(s, 1, i - 1)>> \o Split(SubSeq(s, i + 1, Len(s)), sep)
\* sep.join(parts)
RECURSIVE Join(_, _)
Join(parts, sep) ==
    IF parts = <<>> THEN <<>>
    ELSE IF Len(parts) = 1 THEN parts[1]
    ELSE parts[1] \o <<sep>> \o Join(Tail(parts), sep)

\* KStackLayer.namespace, hyphen by hyphen.
NamespacePieces(layer) ==
    CASE layer = "LAYER_0_APPLICATIONS" -> <<"layer", "-", "0", "-", "applications">>
      [] layer = "LAYER_1_TENANT_INFRA" -> <<"layer", "-", "1", "-", "tenant", "-", "infra">>
      [] layer = "LAYER_2_GLOBAL_SERVICES" -> <<"layer", "-", "2", "-", "global", "-", "services">>
      [] OTHER -> <<"layer", "-", "3", "-", "global", "-", "infra">>

\* The values of KStackEnvironment.
EnvironmentValues == {"dev", "test", "staging", "prod", "scratch", "data-collection"}
EnvFound(environment) == [raised |-> FALSE, exc |-> "", environment |-> environment]
EnvError(exc) == [raised |-> TRUE, exc |-> exc, environment |-> <<>>]

\* ClusterEnvironmentDetector.get_environment on self._namespace
GetEnvironment(namespace) ==
    LET parts == Split(namespace, "-")
    IN  IF Len(parts) < 3 THEN EnvError("KStackConfigurationError")
        ELSE IF parts[1] # <<"layer">> THEN EnvError("KStackConfigurationError")
        ELSE IF ~IsDigit(parts[2]) THEN EnvError("KStackConfigurationError")
        ELSE EnvFound(Join(SubSeq(parts, 3, Len(parts)), "-"))

\* KStackEnvironment.from_string
EnvFromString(value) ==
    LET value_lower == Strip(Lower(value))
    IN  IF Joined(value_lower) \in EnvironmentValues THEN EnvFound(value_lower)
        ELSE EnvError("ValueError")

\* The namespaces a detector is made with: the four layer namespaces, the
\* layer-{num}-{environment} ones of the docstring, and malformed ones.
DetectorNamespaces ==
    {NamespacePieces(layer) : layer \in KStackLayers}
      \cup {<<"layer", "-", n, "-", e>> : n \in {"0", "3"}, e \in {"dev", "prod", "PROD", "production"}}
      \cup {<<"layer", "-", "2", "-", "data", "-", "collection">>, <<"layer", "-", "3">>,
            <<"default">>, <<"kube", "-", "system", "-", "dev">>, <<"layer", "-", "x", "-", "dev">>,
            <<"layer", "-", "3", "-">>, <<"layer", "-", "-", "dev">>}

CallGetEnvironment ==
    /\ \E namespace \in DetectorNamespaces :
          LET out == GetEnvironment(namespace)
          IN  layerCall' = [op |-> "get_environment", num |-> 0, str |-> namespace,
                            out |-> out,
                            layer |-> FromNamespace(Joined(namespace)),
                            accepted |-> ~out.raised /\ ~EnvFromString(out.environment).raised]
    /\ UNCHANGED notLayer

LayerNext == CallFromNumber \/ CallFromNamespace \/ CallFromString \/ CallGetEnvironment

(***************************************************************************)
(* CloudContainer: the cache of cloud providers and its shutdown           *)
(***************************************************************************)
Services == {"s3", "sqs", "secretsmanager"}
\* The `provider` argument of a service method and the default_provider of the
\* constructor; "" stands for None (`provider or ...` treats both alike).
ProviderArgs == {"", "aws-prod"}
DefaultProviders == {"", "localstack"}

\* `provider_key = provider or self._default_provider or f"{service}_default"`
ProviderKey(service, provider, default) ==
    IF provider # "" THEN provider
    ELSE IF default # "" THEN default
    ELSE service \o "_default"
ProviderKeys ==
    {ProviderKey(s, p, d) : s \in Services, p \in ProviderArgs, d \in DefaultProviders}

NoCloseCalls == [k \in ProviderKeys |-> 0]
\* close() is followed on one provider up to this many calls.
MaxCloseCalls == 2

\* `provider_key in self._providers`
InProviders(provs, key) == \E i \in 1..Len(provs) : provs[i] = key

GetOutcome(raised, exc, provs, created) ==
    [raised |-> raised, exc |-> exc, providers |-> provs, created |-> created]

\* A plausible slip: the closed flag is not consulted.
GetProvider_Unguarded(closed, provs, key, factory) ==
    IF InProviders(provs, key) THEN GetOutcome(FALSE, "none", provs, FALSE)
    ELSE IF factory = "raises" THEN GetOutcome(TRUE, "ConfigurationError", provs, FALSE)
    ELSE GetOutcome(FALSE, "none", Append(provs, key), TRUE)

\* CloudContainer._get_provider; factory tells whether the provider factory
\* returns a provider or raises.
GetProvider(closed, provs, key, factory) ==
    IF closed THEN GetOutcome(TRUE, "RuntimeError", provs, FALSE)
    ELSE IF InProviders(provs, key) THEN GetOutcome(FALSE, "none", provs, FALSE)
    ELSE IF factory = "raises" THEN GetOutcome(TRUE, "ConfigurationError", provs, FALSE)
    ELSE GetOutcome(FALSE, "none", Append(provs, key), TRUE)

\* The close() calls a loop over the first n cached providers makes.
CloseFirst(provs, calls, n) ==
    [k \in DOMAIN calls |->
        IF \E i \in 1..n : provs[i] = k THEN calls[k] + 1 ELSE calls[k]]

\* CloudContainer.close(); fail_at is the position in the cache of the first
\* provider whose close() raises, 0 when none does.  The exception leaves the
\* loop: the cache is not cleared and _closed is not set.
Close(closed, provs, calls, fail_at) ==
    IF closed
    THEN [raised |-> FALSE, providers |-> provs, closed |-> TRUE, calls |-> calls,
          closed_now |-> <<>>]
    ELSE IF fail_at = 0
    THEN [raised |-> FALSE, providers |-> <<>>, closed |-> TRUE,
          calls |-> CloseFirst(provs, calls, Len(provs)), closed_now |-> provs]
    ELSE [raised |-> TRUE, providers |-> provs, closed |-> FALSE,
          calls |-> CloseFirst(provs, calls, fail_at),
          closed_now |-> SubSeq(provs, 1, fail_at)]

CloudInit ==
    /\ defaultProvider \in DefaultProviders
    /\ cloudProviders = <<>>
    /\ cloudClosed = FALSE
    /\ closeCalls = NoCloseCalls
    /\ cloudScope = "outside"
    /\ cloudAlive = TRUE
    /\ cloudCall = NoCall

CloudRecord(op, service, key, r, closed_now) ==
    [op |-> op, service |-> service, key |-> key, was_closed |-> cloudClosed,
     before |-> cloudProviders, raised |-> r.raised,
     exc |-> IF r.raised THEN r.exc ELSE "none", created |-> r.created,
     closed_now |-> closed_now]

\* object_storage(provider) / queue(provider) / secret_manager(provider)
CallService ==
    /\ cloudAlive
    /\ \E service \in Services, provider \in ProviderArgs, factory \in {"returns", "raises"} :
          LET key == ProviderKey(service, provider, defaultProvider)
              r == GetProvider(cloudClosed, cloudProviders, key, factory)
          IN  /\ cloudProviders' = r.providers
              /\ cloudCall' = CloudRecord("service", service, key, r, <<>>)
    /\ UNCHANGED <<defaultProvider, cloudClosed, closeCalls, cloudScope, cloudAlive>>
    /\ UNCHANGED notCloud

\* No provider of the cache has reached the bound on close() calls.
CloseBounded == \A i \in 1..Len(cloudProviders) : closeCalls[cloudProviders[i]] < MaxCloseCalls

\* The effect of close() reached through operation op.
DoClose(op) ==
    /\ CloseBounded
    /\ \E fail_at \in 0..Len(cloudProviders) :
          LET c == Close(cloudClosed, cloudProviders, closeCalls, fail_at)
              r == [raised |-> c.raised, exc |-> "ProviderCloseError", created |-> FALSE]
          IN  /\ cloudProviders' = c.providers
              /\ cloudClosed' = c.closed
              /\ closeCalls' = c.calls
              /\ cloudCall' = CloudRecord(op, "", "", r, c.closed_now)

\* container.close()
CloudClose ==
    /\ cloudAlive
    /\ DoClose("close")
    /\ UNCHANGED <<defaultProvider, cloudScope, cloudAlive>>
    /\ UNCHANGED notCloud

\* `with container:` / `async with container:` is entered: __enter__ and
\* __aenter__ return self.
CloudEnter ==
    /\ cloudAlive /\ cloudScope = "outside"
    /\ \E kind \in {"sync", "async"} :
          /\ cloudScope' = kind
          /\ cloudCall' = CloudRecord(IF kind = "sync" THEN "__enter__" ELSE "__aenter__", "", "",
                                      [raised |-> FALSE, exc |-> "none", created |-> FALSE], <<>>)
    /\ UNCHANGED <<defaultProvider, cloudProviders, cloudClosed, closeCalls, cloudAlive>>
    /\ UNCHANGED notCloud

\* The block is left: __exit__ / __aexit__ call close().
CloudExit ==
    /\ cloudAlive /\ cloudScope # "outside"
    /\ DoClose(IF cloudScope = "sync" THEN "__exit__" ELSE "__aexit__")
    /\ cloudScope' = "outside"
    /\ UNCHANGED <<defaultProvider, cloudAlive>>
    /\ UNCHANGED notCloud

\* __del__, once, when no block holds the container; what close() raises
\* inside a finaliser is reported and dropped.
CloudDel ==
    /\ cloudAlive /\ cloudScope = "outside"
    /\ DoClose("__del__")
    /\ cloudAlive' = FALSE
    /\ UNCHANGED <<defaultProvider, cloudScope>>
    /\ UNCHANGED notCloud

CloudNext == CallService \/ CloudClose \/ CloudEnter \/ CloudExit \/ CloudDel

(***************************************************************************)
(* Specifications: one subsystem moves, the others stay idle.              *)
(***************************************************************************)
SecretsIdle == envDirExists = FALSE /\ vaultFiles = EmptyVault /\ secOut = NoCall
ExportIdle == environ = EmptyDict /\ exportCall = NoCall
RouteIdle == kstackRoute = Unset /\ routeCall = NoCall
TemplateIdle == tmplCall = NoCall
ProviderIdle == cfgFiles = NoCall /\ provCall = NoCall
VaultIdle == vaultFS = {} /\ scopePc = "outside" /\ vaultCall = NoCall
ContextIdle ==
    /\ tokenFile = FALSE /\ namespaceFile = NoFile /\ inClusterCache = EmptyCache
    /\ sysModules = {} /\ instances = {} /\ singletons = NoSingletons
    /\ ctxCall = NoCall
CredsIdle == credsDir = NoLayerDir /\ credsCall = NoCall
LayerIdle == layerCall = NoCall
CloudIdle ==
    /\ defaultProvider = "" /\ cloudProviders = <<>> /\ cloudClosed = FALSE
    /\ closeCalls = NoCloseCalls /\ cloudScope = "outside" /\ cloudAlive = TRUE
    /\ cloudCall = NoCall
OthersIdle == ContextIdle /\ CredsIdle /\ LayerIdle /\ CloudIdle

InitSecrets ==
    SecretsInit /\ ExportIdle /\ RouteIdle /\ TemplateIdle /\ ProviderIdle /\ VaultIdle
    /\ OthersIdle
InitExport ==
    SecretsIdle /\ ExportInit /\ RouteIdle /\ TemplateIdle /\ ProviderIdle /\ VaultIdle
    /\ OthersIdle
InitRoute ==
    SecretsIdle /\ ExportIdle /\ RouteInit /\ TemplateIdle /\ ProviderIdle /\ VaultIdle
    /\ OthersIdle
InitTemplate ==
    SecretsIdle /\ ExportIdle /\ RouteIdle /\ TemplateInit /\ ProviderIdle /\ VaultIdle
    /\ OthersIdle
InitProvider ==
    SecretsIdle /\ ExportIdle /\ RouteIdle /\ TemplateIdle /\ ProviderInit /\ VaultIdle
    /\ OthersIdle
InitVault ==
    SecretsIdle /\ ExportIdle /\ RouteIdle /\ TemplateIdle /\ ProviderIdle /\ VaultInit
    /\ OthersIdle
InitContext ==
    SecretsIdle /\ ExportIdle /\ RouteIdle /\ TemplateIdle /\ ProviderIdle /\ VaultIdle
    /\ ContextInit /\ CredsIdle /\ LayerIdle /\ CloudIdle
InitCreds ==
    SecretsIdle /\ ExportIdle /\ RouteIdle /\ TemplateIdle /\ ProviderIdle /\ VaultIdle
    /\ ContextIdle /\ CredsInit /\ LayerIdle /\ CloudIdle
InitSchema ==
    SecretsIdle /\ ExportIdle /\ RouteIdle /\ TemplateIdle /\ ProviderIdle /\ VaultIdle
    /\ ContextIdle /\ SchemaInit /\ LayerIdle /\ CloudIdle
InitLayer ==
    SecretsIdle /\ ExportIdle /\ RouteIdle /\ TemplateIdle /\ ProviderIdle /\ VaultIdle
    /\ ContextIdle /\ CredsIdle /\ LayerInit /\ CloudIdle
InitCloud ==
    SecretsIdle /\ ExportIdle /\ RouteIdle /\ TemplateIdle /\ ProviderIdle /\ VaultIdle
    /\ ContextIdle /\ CredsIdle /\ LayerIdle /\ CloudInit

SpecSecrets == InitSecrets /\ [][SecretsNext]_vars
SpecExport == InitExport /\ [][ExportNext]_vars
SpecRoute == InitRoute /\ [][RouteNext]_vars
SpecTemplate == InitTemplate /\ [][TemplateNext]_vars
SpecProvider == InitProvider /\ [][ProviderNext]_vars
SpecVault == InitVault /\ [][VaultNext]_vars
SpecContext == InitContext /\ [][ContextNext]_vars
SpecCreds == InitCreds /\ [][CredsNext]_vars
SpecSchema == InitSchema /\ [][SchemaNext]_vars
SpecLayer == InitLayer /\ [][LayerNext]_vars
SpecCloud == InitCloud /\ [][CloudNext]_vars

(***************************************************************************)
(* Properties                                                              *)
(***************************************************************************)
\* The files of vault v a requester reads under the stated access rule: those
\* of its own layer directory and those whose shared_with list names it.
SharedFiles(requester, v) ==
    UNION {{f \in Range(v[d]) :
               \/ d = requester
               \/ (f.shared_with.kind = "list" /\ requester \in f.shared_with.items)} :
           d \in LayerNames}
AllFiles(v) == UNION {Range(v[d]) : d \in LayerNames}
ReservedKeys == {"shared_with", "description", "created", "status", "migration"}

EnvVarNameOf(key) ==
    [i \in 1..Len(key) |->
        IF key[i] = "-" THEN "_" ELSE IF key[i] = "a" THEN "A" ELSE key[i]]

\* C2: after export_as_env_vars(secrets, override_existing=False) every variable
\* that existed before holds its old value, every converted name that did not
\* exist holds the value of a secret whose key converts to it, and no other
\* variable has appeared or changed.
C2_ExportKeepsExistingSetsMissing ==
    (exportCall.op = "export_as_env_vars" /\ ~exportCall.override_existing)
    => LET before == exportCall.before
           secrets == exportCall.secrets
           targets == {EnvVarNameOf(secrets[i].key) : i \in 1..Len(secrets)}
       IN  /\ \A n \in DOMAIN before : n \in DOMAIN environ /\ environ[n] = before[n]
           /\ \A n \in targets \ DOMAIN before :
                 /\ n \in DOMAIN environ
                 /\ \E i \in 1..Len(secrets) :
                       EnvVarNameOf(secrets[i].key) = n /\ environ[n] = secrets[i].value
           /\ DOMAIN environ = DOMAIN before \cup targets

\* C2 happens: one export meets a variable that exists and creates one that
\* does not, next to a variable no key converts to.
C2_Witness ==
    /\ exportCall.op = "export_as_env_vars"
    /\ ~exportCall.override_existing
    /\ <<"H", "O", "M", "E">> \in DOMAIN exportCall.before
    /\ \E i, j \in 1..Len(exportCall.secrets) :
          /\ EnvVarNameOf(exportCall.secrets[i].key) \in DOMAIN exportCall.before
          /\ EnvVarNameOf(exportCall.secrets[j].key) \notin DOMAIN exportCall.before
          /\ environ[EnvVarNameOf(exportCall.secrets[j].key)] = exportCall.secrets[j].value
          /\ environ[EnvVarNameOf(exportCall.secrets[i].key)] = "old"

C4_AdvisoryLookupsSwallowFailures ==
    LET failed == routeCall.run.outcome \in
                     {"FileNotFoundError", "CalledProcessError", "TimeoutExpired"}
        empty == /\ routeCall.run.outcome = "ok"
                 /\ \A i \in 1..Len(routeCall.run.stdout) :
                       routeCall.run.stdout[i] \in {" ", "\n"}
    IN  /\ (/\ routeCall.op = "get_active_route"
            /\ ~routeCall.env_before.set
            /\ (failed \/ empty))
           => /\ ~routeCall.out.raised
              /\ ~routeCall.out.none
              /\ routeCall.out.value = <<"development">>
        /\ (routeCall.op = "get_value" /\ failed)
           => (~routeCall.out.raised /\ routeCall.out.none)

\* C4 happens: the store query times out with KSTACK_ROUTE absent.
C4_Witness ==
    /\ routeCall.op = "get_active_route"
    /\ ~routeCall.env_before.set
    /\ routeCall.run.outcome = "TimeoutExpired"
    /\ routeCall.out.queried
    /\ routeCall.out.value = <<"development">>

\* The text with every placeholder occurrence replaced, in one pass, by the
\* string form of the value its path resolves to.
RECURSIVE SubstituteOnce(_, _, _)
SubstituteOnce(s, i, context) ==
    IF i > Len(s) THEN <<>>
    ELSE LET e == MatchAt(s, i)
         IN  IF e # 0
             THEN ValueStr(Lookup(SubSeq(s, i + 2, e - 3), context).value)
                     \o SubstituteOnce(s, e, context)
             ELSE <<s[i]>> \o SubstituteOnce(s, i + 1, context)

\* C5 as stated: resolve(text, context) raises ConfigurationError when some
\* placeholder's path is missing from context or traverses a non-mapping, and
\* otherwise returns text with every placeholder occurrence replaced by the
\* string form of its value; a text with no placeholder comes back unchanged.
C5_ResolveRaisesOrSubstitutesAll ==
    (tmplCall.op = "resolve")
    => LET paths == FindAll(tmplCall.value, 1)
       IN  IF \E i \in 1..Len(paths) : ~Lookup(paths[i], tmplCall.context).found
           THEN tmplCall.out.raised
           ELSE /\ ~tmplCall.out.raised
                /\ tmplCall.out.value = SubstituteOnce(tmplCall.value, 1, tmplCall.context)

\* The deployment-target key of the layer a get_cloud_provider call was made for.
CallLayerKey ==
    CASE provCall.layer = "LAYER_0_APPLICATIONS" -> "layer0"
      [] provCall.layer = "LAYER_1_TENANT_INFRA" -> "layer1"
      [] provCall.layer = "LAYER_2_GLOBAL_SERVICES" -> "layer2"
      [] OTHER -> "layer3"
\* The environment file is a valid EnvironmentConfig.
EnvConfigValid ==
    /\ cfgFiles.env.kind = "file"
    /\ DOMAIN cfgFiles.env.deployment_targets \subseteq {"layer1", "layer3"}
\* The call passed both roots and a non-empty override_provider.
OverrideSupplied ==
    /\ provCall.op = "get_cloud_provider"
    /\ provCall.roots = "both"
    /\ provCall.override.set
    /\ provCall.override.value # ""
FlagMessage == "provider override not allowed, set allow_provider_override"

\* C6 as stated: for every layer and every environment configuration whose
\* allow_provider_override is false, get_cloud_provider with an override
\* raises a ConfigurationError that mentions the allow_provider_override flag.
C6_OverrideAlwaysRefusedWithFlag ==
    (OverrideSupplied /\ EnvConfigValid /\ cfgFiles.env.allow # "true")
    => /\ provCall.out.raised
       /\ provCall.out.exc = "ConfigurationError"
       /\ provCall.out.msg = FlagMessage

\* C6 amended: under such an environment configuration get_cloud_provider with
\* a non-empty override raises ConfigurationError whatever the override
\* provider's files hold; the error mentions allow_provider_override when the
\* environment has a deployment target for the ConfigMap's layer, and is the
\* no-deployment-target error otherwise (always for layer0 and layer2).
C6_OverrideRefusedAfterTargetLookup ==
    (OverrideSupplied /\ EnvConfigValid /\ cfgFiles.env.allow # "true")
    => /\ provCall.out.raised
       /\ provCall.out.exc = "ConfigurationError"
       /\ provCall.out.msg =
             IF CallLayerKey \in DOMAIN cfgFiles.env.deployment_targets
             THEN FlagMessage
             ELSE "no deployment target configured"

\* C6 happens: the override is refused although the override provider's
\* configuration file and credentials are there and valid.
C6_Witness ==
    /\ OverrideSupplied /\ EnvConfigValid
    /\ cfgFiles.env.allow = "false"
    /\ provCall.layer = "LAYER_3_GLOBAL_INFRA"
    /\ provCall.override.value = "aws-dev"
    /\ cfgFiles.env.deployment_targets = Targets3
    /\ cfgFiles.providers["aws-dev"] = ProvFile(ProviderData("aws-dev", "aws", "aws", TNull))
    /\ cfgFiles.creds["layer3"] = CredsFile(BothProviders)
    /\ provCall.out.msg = FlagMessage

\* The provider a returning call must have used: the override if a non-empty
\* one was given, the layer's deployment target otherwise.
ExpectedProvider ==
    IF provCall.override.set /\ provCall.override.value # ""
    THEN provCall.override.value
    ELSE cfgFiles.env.deployment_targets[CallLayerKey]

C8_VaultEncryptedAfterScope ==
    (vaultCall.op = "__exit__" /\ vaultCall.managed) => IsEncrypted(vaultFS)

\* The secret.* files of the vault that the stated rule counts: any directory
\* depth, the .cfg, .conf and .config suffixes left out.
CountedSecretFiles ==
    {p \in vaultFS : /\ Len(p.name) >= 2
                     /\ p.name[1] = "secret"
                     /\ p.name[Len(p.name)] \notin {"cfg", "conf", "config"}}

\* C9: is_encrypted() is true iff some counted secret.* file has no sibling
\* named without the secret. prefix; and when it is false, removing the
\* decrypted sibling of any counted file makes it true.
C9_EncryptedIffSiblingMissing ==
    (vaultCall.op = "is_encrypted")
    => /\ vaultCall.result =
             (\E p \in CountedSecretFiles :
                 [dir |-> p.dir, name |-> Tail(p.name)] \notin vaultFS)
       /\ ~vaultCall.result
             => \A p \in CountedSecretFiles :
                   IsEncrypted(vaultFS \ {[dir |-> p.dir, name |-> Tail(p.name)]})

\* C9 happens: is_encrypted() answers false on a vault with an encrypted file
\* in a nested directory next to its sibling and a metadata file without one.
C9_Witness ==
    /\ vaultCall.op = "is_encrypted"
    /\ ~vaultCall.result
    /\ VaultPath("layer3/keys", <<"secret", "k", "json">>) \in vaultFS
    /\ VaultPath("layer3/keys", <<"k", "json">>) \in vaultFS
    /\ VaultPath("layer1", <<"secret", "x", "conf">>) \in vaultFS

\* C10: decrypt() never raises; on a decrypted vault it returns True and does
\* not run the tool; on an encrypted vault it runs the tool once and returns
\* True if the run completed, False if it raised.
C10_DecryptNeverRaises ==
    (vaultCall.op = "decrypt")
    => /\ ~vaultCall.raised
       /\ ~vaultCall.was_encrypted => (vaultCall.result /\ vaultCall.invoked = 0)
       /\ vaultCall.was_encrypted
             => /\ vaultCall.invoked = 1
                /\ vaultCall.result = (vaultCall.tool = "ok")

\* C10 happens: the tool times out on an encrypted vault and decrypt() returns
\* False.
C10_Witness ==
    /\ vaultCall.op = "decrypt"
    /\ vaultCall.was_encrypted
    /\ vaultCall.tool = "TimeoutExpired"
    /\ ~vaultCall.result
    /\ ~vaultCall.raised

\* C11 as stated: encrypt() on a vault that is already encrypted returns True
\* and does not run the external tool.
C11_EncryptShortCircuits ==
    (vaultCall.op = "encrypt" /\ vaultCall.was_encrypted)
    => (vaultCall.result /\ vaultCall.invoked = 0)


\* C12 as stated: in-cluster, load_secrets returns {} and does not raise when
\* the read of the secret store fails (tool not found, non-zero exit, invalid
\* JSON output, undecodable value).
C12_InClusterReadErrorsGiveEmpty ==
    (/\ ctxCall.op = "load_secrets"
     /\ ctxCall.source = "k8s"
     /\ ctxCall.arg \in {"FileNotFoundError", "CalledProcessError", "invalid_json",
                         "bad_base64", "bad_utf8"})
    => (~ctxCall.raised /\ ctxCall.secrets = EmptyDict)

\* C13 as stated: load_secrets reads the external secret store exactly when
\* is_in_cluster() reports in-cluster and scans the vault exactly when it
\* reports local, in every filesystem state and at every point of the process.
C13_LoadSecretsBranchesOnContextDetector ==
    ctxCall.op = "load_secrets" =>
        /\ (ctxCall.source = "k8s") <=> ctxCall.in_cluster
        /\ (ctxCall.source = "vault") <=> ~ctxCall.in_cluster

\* C14: loading or constructing a local-only component while is_in_cluster()
\* is true raises KStackEnvironmentError, and so does loading or constructing
\* a cluster-only component while it is false; no loaded module and no
\* instance of the wrong context exists in any state.
C14_NoComponentInWrongContext ==
    /\ (/\ ctxCall.op \in {"import", "construct"}
        /\ ctxCall.arg \in LocalModules \cup LocalClasses
        /\ ctxCall.in_cluster)
       => (ctxCall.raised /\ ctxCall.exc = "KStackEnvironmentError")
    /\ (/\ ctxCall.op \in {"import", "construct"}
        /\ ctxCall.arg \in ClusterModules \cup ClusterClasses
        /\ ~ctxCall.in_cluster)
       => (ctxCall.raised /\ ctxCall.exc = "KStackEnvironmentError")
    /\ \A c \in instances \cup sysModules :
          /\ c \in LocalClasses \cup LocalModules => ~InClusterNow
          /\ c \in ClusterClasses \cup ClusterModules => InClusterNow

C14_Witness ==
    /\ ctxCall.op = "construct"
    /\ ctxCall.arg = "KStackVault"
    /\ ctxCall.in_cluster
    /\ ctxCall.raised
    /\ "ClusterBaseSubclass" \in instances
    /\ ~tokenFile

\* C15: is_in_cluster() looks at the token file only on its first call; every
\* later call returns the value of the first call, whatever has happened to
\* the token file since, and no operation replaces a cached value.
C15_FirstAnswerIsCached ==
    /\ ctxCall.op = "is_in_cluster" =>
          /\ ctxCall.prior.cached =>
                (~ctxCall.checked /\ ctxCall.value = ctxCall.prior.value)
          /\ ~ctxCall.prior.cached =>
                (ctxCall.checked /\ ctxCall.value = ctxCall.token)
    /\ (ctxCall.op # "none" /\ ctxCall.prior.cached) => inClusterCache = ctxCall.prior

C15_Witness ==
    /\ ctxCall.op = "is_in_cluster"
    /\ ctxCall.prior.cached
    /\ ctxCall.token # ctxCall.prior.value
    /\ ctxCall.value = ctxCall.prior.value


\* The implementation a container provider is wired to in each context.
Implementation(p, in_cluster) ==
    CASE p = "environment_detector" ->
           IF in_cluster THEN "ClusterEnvironmentDetector" ELSE "LocalEnvironmentDetector"
      [] p = "secrets_provider" ->
           IF in_cluster THEN "ClusterSecretsProvider" ELSE "LocalCredentialsProvider"
      [] OTHER -> "KStackVault"

\* A container call returns the instance an earlier call returned, and the
\* instance is the implementation of the context is_in_cluster() reports.
SingletonOfContext ==
    ctxCall.op = "resolve" =>
        /\ ctxCall.held # "none" =>
              (~ctxCall.raised /\ ~ctxCall.built /\ ctxCall.inst = ctxCall.held)
        /\ ~ctxCall.raised =>
              /\ singletons[ctxCall.arg] = ctxCall.inst
              /\ ctxCall.inst = Implementation(ctxCall.arg, ctxCall.in_cluster)
              /\ ctxCall.arg = "vault_manager" => ~ctxCall.in_cluster
        /\ (ctxCall.arg = "environment_detector"
                /\ (ctxCall.in_cluster => ctxCall.ns_exists)) => ~ctxCall.raised

MirrorsOnlyAfterSuccess ==
    routeCall.op = "set_active_route" =>
        IF routeCall.run.outcome = "ok"
        THEN ~routeCall.out.raised /\ kstackRoute = EnvValue(routeCall.arg)
        ELSE /\ routeCall.out.raised
             /\ routeCall.out.exc = routeCall.run.outcome
             /\ kstackRoute = routeCall.env_before

\* C16 as stated: set_active_route mirrors only after success, and after a
\* successful set_active_route(r) every later get_active_route(), on a ConfigMap
\* of any layer, returns r without querying the store, for every string r.
C16_EveryMirroredRouteIsReturned ==
    /\ MirrorsOnlyAfterSuccess
    /\ (routeCall.op = "get_active_route" /\ Mirrored.set)
       => routeCall.out = Returned(Mirrored.value, FALSE)

\* C16, amended: the same for every non-empty r; after set_active_route("")
\* the variable is empty and get_active_route() falls through to the store.
C16_NonEmptyMirroredRouteIsReturned ==
    /\ MirrorsOnlyAfterSuccess
    /\ (routeCall.op = "get_active_route" /\ Mirrored.set)
       => IF Mirrored.value # <<>>
          THEN routeCall.out = Returned(Mirrored.value, FALSE)
          ELSE routeCall.out.raised \/ routeCall.out.queried

C16_Witness ==
    /\ routeCall.op = "get_active_route"
    /\ routeCall.layer = "LAYER_1_TENANT_INFRA"
    /\ Mirrored = EnvValue(<<"testing">>)
    /\ routeCall.out = Returned(<<"testing">>, FALSE)
    /\ routeCall.run.outcome = "CalledProcessError"


\* C17: with cloud-credentials.yaml absent load_cloud_credentials always
\* raises; the error is the "not decrypted" one exactly when the layer
\* directory holds a secret.* file whose decrypted sibling does not exist,
\* and the plain "not found" one in every other case of absence.
C17_AbsentCredentialsErrors ==
    (/\ credsCall.op = "load_cloud_credentials"
     /\ ~(credsCall.dir.exists /\ CredsFilePath \in credsCall.dir.files))
    => /\ credsCall.raised
       /\ credsCall.returned = NoTargets
       /\ IF \E p \in credsCall.dir.files :
                /\ p.dir = ""
                /\ p.name[1] = "secret"
                /\ VaultPath("", Tail(p.name)) \notin credsCall.dir.files
          THEN credsCall.msg = "cloud credentials not decrypted"
          ELSE credsCall.msg = "cloud credentials not found"

C17_Witness ==
    /\ credsCall.op = "load_cloud_credentials"
    /\ credsCall.dir.files = {VaultPath("", <<"secret", "map", "cfg">>)}
    /\ credsCall.msg = "cloud credentials not decrypted"

\* C19 as stated: validation succeeds exactly when one of the nine credential
\* fields of the three families is present and non-empty.
C19_ValidIffSomeFamilyFieldGiven ==
    credsCall.op = "ProviderCredentials" =>
        (credsCall.valid <=>
            \E f \in CredentialFields :
                ~credsCall.fields[f].null /\ credsCall.fields[f].s # "")


\* The strings that are a layer's number, alias or full name in some spelling
\* and with whitespace around them.
Accepted(layer) ==
    UNION {Padded(v) : v \in UNION {Spellings(s) : s \in LayerStrings(layer)}}

\* The error message names the values that would have been valid.
ListsValidValues(msg) ==
    msg = "Invalid layer: '{value}'. Use: layer0, layer1, layer2, layer3 (or full names: layer-0-applications, etc.)"

FailsListingValidValues(out) ==
    out.raised /\ out.exc = "ValueError" /\ ListsValidValues(out.msg)

\* C20 as stated: number, identifier and namespace are pairwise distinct across
\* the four layers; from_number, from_namespace and from_string return L on
\* L's number, namespace, and number string / alias / full name in any spelling
\* and with whitespace around it; on everything else they raise a ValueError
\* that lists the valid values.
C20_LookupsRoundTripOrListValidValues ==
    /\ \A a, b \in KStackLayers :
          a # b => (LayerNumber(a) # LayerNumber(b) /\ LayerNamespace(a) # LayerNamespace(b))
    /\ \A layer \in KStackLayers :
          /\ FromNumber(LayerNumber(layer)) = LayerFound(layer)
          /\ FromNamespace(LayerNamespace(layer)) = LayerFound(layer)
    /\ layerCall.op = "from_number" =>
          IF \E layer \in KStackLayers : LayerNumber(layer) = layerCall.num
          THEN ~layerCall.out.raised /\ LayerNumber(layerCall.out.layer) = layerCall.num
          ELSE FailsListingValidValues(layerCall.out)
    /\ layerCall.op = "from_namespace" =>
          IF \E layer \in KStackLayers : LayerNamespace(layer) = Joined(layerCall.str)
          THEN ~layerCall.out.raised
               /\ LayerNamespace(layerCall.out.layer) = Joined(layerCall.str)
          ELSE FailsListingValidValues(layerCall.out)
    /\ layerCall.op = "from_string" =>
          IF \E layer \in KStackLayers : layerCall.str \in Accepted(layer)
          THEN ~layerCall.out.raised /\ layerCall.str \in Accepted(layerCall.out.layer)
          ELSE FailsListingValidValues(layerCall.out)


\* C22 as stated: whatever a file's shared_with holds that is not a list (a
\* plain string, null, a number, a mapping), load_secrets_from_vault returns
\* a dict for every requesting layer and does not raise.
C22_MalformedSharedWithNeverRaises ==
    (/\ secOut.op = "load_secrets_from_vault"
     /\ \E f \in AllFiles(vaultFiles) : f.shared_with.kind \in {"str", "null", "int", "dict"})
    => ~secOut.out.raised

\* The position of a file in the processing order: layer directories layer0
\* to layer3, and within a directory the order of the glob.
DirIndex(d) == CHOOSE i \in 1..Len(LayerDirs) : LayerDirs[i] = d
FilePositions(v) == {p \in LayerNames \X (1..MaxFiles) : p[2] <= Len(v[p[1]])}
Later(p, q) ==
    \/ DirIndex(p[1]) > DirIndex(q[1])
    \/ (p[1] = q[1] /\ p[2] > q[2])

\* The requester may read the file at position p, and the file holds key k.
AccessibleWithKey(requester, v, p, k) ==
    LET f == v[p[1]][p[2]]
    IN  /\ p[1] = requester \/ requester \in f.shared_with.items
        /\ k \in DOMAIN f.data \ ReservedKeys

\* C23: a load that returns gives every key the value of the last file, in
\* the order layer0..layer3 whoever asks, among the files the requester may
\* read that hold the key; no value comes from a file it may not read.
C23_LastAccessibleFileWins ==
    (secOut.op = "load_secrets_from_vault" /\ ~secOut.out.raised) =>
        \A k \in DOMAIN secOut.out.secrets :
            \E p \in FilePositions(vaultFiles) :
                /\ AccessibleWithKey(secOut.layer, vaultFiles, p, k)
                /\ secOut.out.secrets[k] = PyStr(vaultFiles[p[1]][p[2]].data[k])
                /\ \A q \in FilePositions(vaultFiles) :
                      AccessibleWithKey(secOut.layer, vaultFiles, q, k) => ~Later(q, p)

\* C23 happens: layer1 asks, holds redis-host itself, and gets the value of
\* the file layer2 shares with it.
C23_Witness ==
    /\ secOut.op = "load_secrets_from_vault"
    /\ secOut.layer = "layer1"
    /\ ~secOut.out.raised
    /\ Len(vaultFiles["layer1"]) = 1
    /\ vaultFiles["layer1"][1].data = DocA
    /\ Len(vaultFiles["layer2"]) = 1
    /\ vaultFiles["layer2"][1].data = DocB
    /\ "layer1" \in vaultFiles["layer2"][1].shared_with.items
    /\ secOut.out.secrets["redis-host"] = "hostB"


\* The positions of the secrets whose key converts to the variable name n.
KeysOf(n, secrets) == {i \in 1..Len(secrets) : EnvVarNameOf(secrets[i].key) = n}

\* C26: with override_existing=False a variable that did not exist before the
\* call ends with the value of the first key that converts to its name, later
\* keys of the same name do not overwrite it; with override_existing=True a
\* variable ends with the value of the last key that converts to its name.
C26_FirstKeyWinsUnlessOverride ==
    exportCall.op = "export_as_env_vars" =>
        LET secrets == exportCall.secrets
            targets == {EnvVarNameOf(secrets[i].key) : i \in 1..Len(secrets)}
            First(n) == CHOOSE i \in KeysOf(n, secrets) : \A j \in KeysOf(n, secrets) : i <= j
            Last(n) == CHOOSE i \in KeysOf(n, secrets) : \A j \in KeysOf(n, secrets) : i >= j
        IN  IF exportCall.override_existing
            THEN \A n \in targets : environ[n] = secrets[Last(n)].value
            ELSE \A n \in targets \ DOMAIN exportCall.before :
                    environ[n] = secrets[First(n)].value

\* C26 happens: two keys of one export convert to the same new variable and
\* carry different values.
C26_Witness ==
    /\ exportCall.op = "export_as_env_vars"
    /\ ~exportCall.override_existing
    /\ Len(exportCall.secrets) = 2
    /\ exportCall.secrets[1].key = <<"a", "-">>
    /\ exportCall.secrets[2].key = <<"A", "_">>
    /\ <<"A", "_">> \notin DOMAIN exportCall.before
    /\ exportCall.secrets[1].value # exportCall.secrets[2].value
    /\ environ[<<"A", "_">>] = exportCall.secrets[1].value


\* C24: entering the vault scope raises RuntimeError exactly when the vault is
\* encrypted and decrypt() fails (its reveal run does not succeed); then the
\* body does not run and the scope, never entered, runs no encrypt.  The body
\* runs only after the vault was found decrypted or decrypt() succeeded.
C24_EnterRaisesIffDecryptFails ==
    vaultCall.op = "__enter__" =>
        /\ vaultCall.raised <=> (vaultCall.was_encrypted /\ vaultCall.tool # "ok")
        /\ vaultCall.raised =>
              /\ vaultCall.exc = "RuntimeError"
              /\ scopePc = "outside"
              /\ vaultCall.invoked = 1
        /\ ~vaultCall.raised =>
              /\ scopePc = "inside"
              /\ ~vaultCall.was_encrypted \/ (vaultCall.tool = "ok" /\ vaultCall.result)

C24_Witness ==
    /\ vaultCall.op = "__enter__"
    /\ vaultCall.was_encrypted
    /\ vaultCall.tool = "TimeoutExpired"
    /\ vaultCall.raised
    /\ vaultCall.exc = "RuntimeError"
    /\ scopePc = "outside"


\* C25 as stated: whenever load_cloud_credentials reports the missing
\* credentials file of a layer as "not decrypted", is_encrypted() of the
\* vault of that environment is true in the same state.
C25_NotDecryptedImpliesIsEncrypted ==
    (/\ vaultCall.op = "load_cloud_credentials"
     /\ vaultCall.msg = "cloud credentials not decrypted")
    => IsEncrypted(vaultFS)


\* C30: for every environment configuration that passes EnvironmentConfig
\* validation, get_cloud_provider called with both roots and a Layer 0 or
\* Layer 2 ConfigMap raises the no-deployment-target ConfigurationError and
\* returns no provider, configuration or credentials, whatever the override,
\* the provider files and the vault credentials are.
C30_NoCloudProviderForLayer0And2 ==
    (/\ provCall.op = "get_cloud_provider"
     /\ provCall.roots = "both"
     /\ provCall.layer \in {"LAYER_0_APPLICATIONS", "LAYER_2_GLOBAL_SERVICES"}
     /\ EnvConfigValid)
    => /\ provCall.out.raised
       /\ provCall.out.exc = "ConfigurationError"
       /\ provCall.out.msg = "no deployment target configured"
       /\ provCall.out.provider = ""
       /\ provCall.out.config = NoTargets
       /\ provCall.out.creds = NoTargets

\* C30 happens: a Layer 2 call with an allowed override whose provider file
\* and Layer 3 credentials are valid is refused for want of a target.
C30_Witness ==
    /\ provCall.op = "get_cloud_provider"
    /\ provCall.roots = "both"
    /\ provCall.layer = "LAYER_2_GLOBAL_SERVICES"
    /\ provCall.override = Override("aws-dev")
    /\ EnvConfigValid
    /\ cfgFiles.env.allow = "true"
    /\ cfgFiles.env.deployment_targets = Targets31
    /\ cfgFiles.providers["aws-dev"] = ProvFile(ProviderData("aws-dev", "aws", "aws", TNull))
    /\ cfgFiles.creds["layer3"] = CredsFile(BothProviders)
    /\ provCall.out.msg = "no deployment target configured"


CloseOps == {"close", "__exit__", "__aexit__"}
\* What the last CloudContainer operation shows, for C21.
ClosedContainerRefuses ==
    /\ (cloudCall.op = "service" /\ cloudCall.was_closed)
       => /\ cloudCall.raised /\ cloudCall.exc = "RuntimeError"
          /\ ~cloudCall.created
          /\ cloudProviders = <<>>
    /\ (cloudCall.op \in CloseOps /\ ~cloudCall.was_closed /\ ~cloudCall.raised)
       => /\ cloudCall.closed_now = cloudCall.before
          /\ cloudProviders = <<>>
          /\ cloudClosed
    /\ (cloudCall.op \in CloseOps /\ cloudCall.was_closed)
       => /\ ~cloudCall.raised
          /\ cloudCall.closed_now = <<>>
          /\ cloudProviders = cloudCall.before
          /\ cloudClosed
\* Once closed the container stays closed, its cache stays empty and no
\* provider sees another close().
ClosedIsFinal ==
    cloudClosed => /\ cloudClosed'
                   /\ cloudProviders = <<>> /\ cloudProviders' = <<>>
                   /\ closeCalls' = closeCalls

\* C21: once close() has returned (called directly or on leaving the sync or
\* async block), every object_storage() / queue() / secret_manager() call
\* raises RuntimeError and creates no provider; the close() that closes the
\* container calls close() once on each cached provider, in cache order, and
\* empties the cache; a repeated close() calls nothing and changes nothing.
C21_ClosedContainerRefusesUse == []ClosedContainerRefuses /\ [][ClosedIsFinal]_vars

\* C21 happens: a block with two cached providers was left, both providers
\* were closed once, and a later service call was refused.
C21_Witness ==
    /\ cloudCall.op = "service" /\ cloudCall.was_closed
    /\ cloudCall.raised /\ cloudCall.exc = "RuntimeError"
    /\ closeCalls["s3_default"] = 1 /\ closeCalls["aws-prod"] = 1
    /\ cloudProviders = <<>>

\* C28 as stated: close() is called at most once on each provider the
\* container created, also when a provider's close() raised during
\* CloudContainer.close() and close() or __del__ ran again; and after any
\* CloudContainer.close() call, returned or raised, the container is closed.
C28_EachProviderClosedAtMostOnce ==
    /\ \A k \in ProviderKeys : closeCalls[k] <= 1
    /\ (cloudCall.op \in CloseOps \cup {"__del__"}) => cloudClosed


\* C27: get_credentials never runs vault.encrypt(); the vault's files after
\* the call are the files before it, or -- when the vault was encrypted and
\* the call decrypted it -- those files with every decrypted sibling added;
\* a vault the call decrypted is decrypted after it whether the call returned
\* credentials or raised.
C27_GetCredentialsNeverEncrypts ==
    vaultCall.op = "get_credentials" =>
        /\ vaultCall.hide = 0
        /\ \/ vaultFS = vaultCall.fs_before
           \/ /\ vaultCall.was_encrypted /\ ~IsEncrypted(vaultFS)
              /\ vaultFS = Reveal(vaultCall.fs_before)
        /\ (vaultCall.was_encrypted /\ vaultCall.environment = VaultEnvironment
              /\ vaultCall.tool = "ok")
           => ~IsEncrypted(vaultFS)
        /\ ~vaultCall.was_encrypted => vaultFS = vaultCall.fs_before

\* C27 happens: an encrypted vault was decrypted by the call, the call then
\* raised for a service the file does not hold, and the vault is decrypted.
C27_Witness ==
    /\ vaultCall.op = "get_credentials"
    /\ vaultCall.was_encrypted /\ vaultCall.invoked = 1
    /\ vaultCall.raised /\ vaultCall.exc = "KStackServiceNotFoundError"
    /\ VaultPath("layer1", <<"cloud-credentials", "yaml">>) \in vaultFS
    /\ ~IsEncrypted(vaultFS)


\* C29 as stated: for each namespace that from_namespace maps to a layer (the
\* four KStackLayer.namespace values), get_environment on that namespace
\* returns a string that KStackEnvironment.from_string accepts.
C29_LayerNamespaceGivesValidEnvironment ==
    (layerCall.op = "get_environment" /\ ~layerCall.layer.raised)
    => /\ ~layerCall.out.raised
       /\ layerCall.accepted


\* get_environment and from_string agree on the namespaces of the
\* layer-{num}-{environment} form: the upper-case environment is accepted.
EnvironmentNamespaceAccepted ==
    (layerCall.op = "get_environment"
       /\ layerCall.str \in {<<"layer", "-", "3", "-", "PROD">>, <<"layer", "-", "0", "-", "dev">>,
                             <<"layer", "-", "2", "-", "data", "-", "collection">>})
    => layerCall.accepted

=============================================================================
